---------------------------- MODULE Spec2Model ----------------------------
(***************************************************************************)
(* A model of the PubMed tool (pubmed_tool): the field normalizers and the *)
(* record assembler of scr/scraper_functs.py, the table splitter of        *)
(* sql_functs.py and the scraper() driver of pubmed_tool.py.               *)
(*                                                                         *)
(* Conventions.  A Python string is a sequence of one-character strings.   *)
(* An optional value is a sequence of length 0 or 1: None is << >> and a   *)
(* present value v is << v >>.  A dictionary is a record whose fields are  *)
(* optional values; an absent key is None.                                 *)
(***************************************************************************)
EXTENDS Integers, Sequences, FiniteSets, TLC

VARIABLES
    \* format_date
    date_obj, date, datePc,
    \* format_author
    author_dict, name_dict, name_dict2, authorPc,
    \* journal_content
    jrecord, jour_data, journalPc,
    \* format_df and split_tables
    in_df, t_df, papers_df, author_df, author_paper_df, splitPc,
    \* scraper
    chunksize, pathIn, path, overwrite, overwriteIn, return_df,
    fileExists, fileExistsIn, fileLines,
    target_ids, idx, records, recIdx, output_dict, fetches, writes,
    valError, procError, success, scrPc,
    \* upload and query (sql_functs.py), sql_full (pubmed_tool.py)
    db, dbPathOk, arg_any_nm, arg_last_nm, arg_first_nm,
    arg_initials_nm, matches, queryError, queryRaised, conx, queryPc,
    uploadError, sqlPc,
    \* pubmed_search_ids
    max_returns, inputsValid, retmax, results, searchPc,
    \* one direct call of a field-level function on any Python value
    norm_fn, norm_arg, norm_out, normPc

vars == << date_obj, date, datePc,
           author_dict, name_dict, name_dict2, authorPc,
           jrecord, jour_data, journalPc,
           in_df, t_df, papers_df, author_df, author_paper_df, splitPc,
           chunksize, pathIn, path, overwrite, overwriteIn, return_df,
           fileExists, fileExistsIn, fileLines,
           target_ids, idx, records, recIdx, output_dict, fetches, writes,
           valError, procError, success, scrPc,
           db, dbPathOk, arg_any_nm, arg_last_nm, arg_first_nm,
           arg_initials_nm,
           matches, queryError, queryRaised, conx, queryPc,
           uploadError, sqlPc,
           max_returns, inputsValid, retmax, results, searchPc,
           norm_fn, norm_arg, norm_out, normPc >>

dateVars    == << date_obj, date, datePc >>
authorVars  == << author_dict, name_dict, name_dict2, authorPc >>
journalVars == << jrecord, jour_data, journalPc >>
splitVars   == << in_df, t_df, papers_df, author_df, author_paper_df,
                  splitPc >>
scraperVars == << chunksize, pathIn, path, overwrite, overwriteIn, return_df,
                  fileExists, fileExistsIn, fileLines,
                  target_ids, idx, records, recIdx, output_dict, fetches,
                  writes, valError, procError, success, scrPc >>

queryVars   == << db, dbPathOk, arg_any_nm, arg_last_nm, arg_first_nm,
                  arg_initials_nm,
                  matches, queryError, queryRaised, conx, queryPc >>
sqlVars     == << uploadError, sqlPc >>
searchVars  == << max_returns, inputsValid, retmax, results, searchPc >>
normVars    == << norm_fn, norm_arg, norm_out, normPc >>

\* The variables each entry point leaves alone
notDate    == << authorVars, journalVars, splitVars, scraperVars, queryVars,
                 sqlVars, searchVars,
                 normVars >>
notAuthor  == << dateVars, journalVars, splitVars, scraperVars, queryVars,
                 sqlVars, searchVars,
                 normVars >>
notJournal == << dateVars, authorVars, splitVars, scraperVars, queryVars,
                 sqlVars, searchVars,
                 normVars >>
notSplit   == << dateVars, authorVars, journalVars, scraperVars, queryVars,
                 sqlVars, searchVars,
                 normVars >>
notScraper == << dateVars, authorVars, journalVars, splitVars, queryVars,
                 sqlVars, searchVars,
                 normVars >>
notQuery   == << dateVars, authorVars, journalVars, splitVars, scraperVars,
                 searchVars,
                 normVars >>
notSearch  == << dateVars, authorVars, journalVars, splitVars, scraperVars,
                 queryVars, sqlVars,
                 normVars >>
notNorm    == << dateVars, authorVars, journalVars, splitVars, scraperVars,
                 queryVars, sqlVars, searchVars >>

---------------------------------------------------------------------------
(* Optional values and Python string primitives                            *)

None == << >>
Some(v) == << v >>
Truthy(o) == o # << >> /\ o[1] # << >>   \* bool(x) of None / '' / text

Digits == {"0", "1", "2", "3", "4", "5", "6", "7", "8", "9"}
UpperLetters == << "A", "B", "C", "D", "E", "F", "G", "H", "I", "J", "K",
                   "L", "M", "N", "O", "P", "Q", "R", "S", "T", "U", "V",
                   "W", "X", "Y", "Z" >>
LowerLetters == << "a", "b", "c", "d", "e", "f", "g", "h", "i", "j", "k",
                   "l", "m", "n", "o", "p", "q", "r", "s", "t", "u", "v",
                   "w", "x", "y", "z" >>
Range(f) == { f[i] : i \in DOMAIN f }
Letters == Range(UpperLetters) \cup Range(LowerLetters)

\* str.lower() character by character
LowerChar(c) ==
    IF c \in Range(UpperLetters)
    THEN LowerLetters[CHOOSE i \in DOMAIN UpperLetters : UpperLetters[i] = c]
    ELSE c
Lower(s) == [i \in DOMAIN s |-> LowerChar(s[i])]

\* str.strip(): drop leading and trailing blanks
RECURSIVE LStrip(_)
LStrip(s) == IF s # << >> /\ s[1] = " " THEN LStrip(Tail(s)) ELSE s
RECURSIVE RStrip(_)
RStrip(s) ==
    IF s # << >> /\ s[Len(s)] = " " THEN RStrip(SubSeq(s, 1, Len(s) - 1))
    ELSE s
Strip(s) == RStrip(LStrip(s))

\* str.replace(c, ''): delete every occurrence of one character
RECURSIVE RemoveChar(_, _)
RemoveChar(s, c) ==
    IF s = << >> THEN << >>
    ELSE IF s[1] = c THEN RemoveChar(Tail(s), c)
         ELSE << s[1] >> \o RemoveChar(Tail(s), c)

\* str.isdigit(): non-empty and every character a decimal digit
IsDigit(s) == s # << >> /\ \A i \in DOMAIN s : s[i] \in Digits

DigitVal(c) ==
    CASE c = "0" -> 0 [] c = "1" -> 1 [] c = "2" -> 2 [] c = "3" -> 3
      [] c = "4" -> 4 [] c = "5" -> 5 [] c = "6" -> 6 [] c = "7" -> 7
      [] c = "8" -> 8 [] c = "9" -> 9
DigitChar(n) ==
    CASE n = 0 -> "0" [] n = 1 -> "1" [] n = 2 -> "2" [] n = 3 -> "3"
      [] n = 4 -> "4" [] n = 5 -> "5" [] n = 6 -> "6" [] n = 7 -> "7"
      [] n = 8 -> "8" [] n = 9 -> "9"

\* int(s) of a digit string
RECURSIVE ToInt(_)
ToInt(s) ==
    IF s = << >> THEN 0
    ELSE 10 * ToInt(SubSeq(s, 1, Len(s) - 1)) + DigitVal(s[Len(s)])

\* str(n) of a natural number
RECURSIVE Str(_)
Str(n) == IF n < 10 THEN << DigitChar(n) >>
          ELSE Str(n \div 10) \o << DigitChar(n % 10) >>

\* s is a contiguous substring of t ('s' in 't')
Contains(t, s) ==
    \E i \in 1..(Len(t) - Len(s) + 1) : SubSeq(t, i, i + Len(s) - 1) = s

\* re.search of a run of n characters of class cls: the first match or None
SearchRun(s, cls, n) ==
    LET starts == { i \in 1..(Len(s) - n + 1) :
                        \A k \in 0..(n - 1) : s[i + k] \in cls }
    IN  IF starts = {} THEN None
        ELSE LET i == CHOOSE j \in starts : \A k \in starts : j <= k
             IN  Some(SubSeq(s, i, i + n - 1))

---------------------------------------------------------------------------
(* format_date (scr/scraper_functs.py)                                     *)

\* Text literals used by the date code and its inputs
S2(a, b) == << a, b >>
S3(a, b, c) == << a, b, c >>
S4(a, b, c, d) == << a, b, c, d >>

months_dict ==
    [k \in { S3("j","a","n"), S3("f","e","b"), S3("m","a","r"),
             S3("a","p","r"), S3("m","a","y"), S3("j","u","n"),
             S3("j","u","l"), S3("a","u","g"), S3("s","e","p"),
             S3("o","c","t"), S3("n","o","v"), S3("d","e","c"),
             S3("s","p","r"), S3("s","u","m"), S3("f","a","l"),
             S3("w","i","n") } |->
        CASE k = S3("j","a","n") -> S2("0","1")
          [] k = S3("f","e","b") -> S2("0","2")
          [] k = S3("m","a","r") -> S2("0","3")
          [] k = S3("a","p","r") -> S2("0","4")
          [] k = S3("m","a","y") -> S2("0","5")
          [] k = S3("j","u","n") -> S2("0","6")
          [] k = S3("j","u","l") -> S2("0","7")
          [] k = S3("a","u","g") -> S2("0","8")
          [] k = S3("s","e","p") -> S2("0","9")
          [] k = S3("o","c","t") -> S2("1","0")
          [] k = S3("n","o","v") -> S2("1","1")
          [] k = S3("d","e","c") -> S2("1","2")
          [] k = S3("s","p","r") -> S2("0","3")
          [] k = S3("s","u","m") -> S2("0","6")
          [] k = S3("f","a","l") -> S2("0","9")
          [] k = S3("w","i","n") -> S2("1","1")]

\* 'Year' branch: lowercase, strip; rejected when shorter than 4 characters
\* or not all digits
YearField(d) ==
    IF d.Year # None
    THEN LET year == Strip(Lower(d.Year[1]))
         IN  IF Len(year) < 4 \/ ~IsDigit(year) THEN None ELSE Some(year)
    ELSE None

\* 'Month' branch: a month name is mapped through months_dict; a numeric
\* month is kept only when it is in 1..12 and a single character long
MonthField(d) ==
    IF d.Month # None
    THEN LET month == Strip(Lower(d.Month[1]))
         IN  IF ~IsDigit(month) /\ month \in DOMAIN months_dict
             THEN Some(months_dict[month])
             ELSE IF IsDigit(month) /\ ToInt(month) \in 1..12
                     /\ Len(month) < 2
                  THEN Some(<< "0" >> \o Str(ToInt(month)))
                  ELSE None
    ELSE None

\* 'Day' branch: kept only when numeric, in range(1,13) and a single
\* character long
DayField(d) ==
    IF d.Day # None
    THEN LET day == Strip(Lower(d.Day[1]))
         IN  IF IsDigit(day) /\ ToInt(day) \in 1..12 /\ Len(day) < 2
             THEN Some(<< "0" >> \o Str(ToInt(day)))
             ELSE None
    ELSE None

\* `month in months_dict.keys()` where month is the re.Match object itself:
\* a Match never equals a text key
MatchIsKey(match) == FALSE

\* The MedlineDate fallback: taken when year is falsy and the key exists.
\* It replaces year by the first run of 4 digits and month by the lookup of
\* the first run of 3 letters (guarded by MatchIsKey).
MedlineYear(d) == SearchRun(d.MedlineDate[1], Digits, 4)
MedlineMonth(d) ==
    LET month == SearchRun(d.MedlineDate[1], Letters, 3)
    IN  IF month # None /\ MatchIsKey(month)
        THEN Some(months_dict[Strip(Lower(month[1]))])
        ELSE None

IsLeap(y) == y % 4 = 0 /\ (y % 100 # 0 \/ y % 400 = 0)
DaysInMonth(y, m) ==
    IF m = 2 THEN (IF IsLeap(y) THEN 29 ELSE 28)
    ELSE IF m \in {4, 6, 9, 11} THEN 30 ELSE 31

MkDate(y, m, d) == [year |-> y, month |-> m, day |-> d]

\* dt.datetime.strptime(...).date() for the formats %Y/%m/%d, %Y/%m and %Y
\* (an absent month or day is None and defaults to 1).  %Y consumes exactly
\* four digits, %m one or two digits of value 1..12, %d one or two digits
\* of value 1..31; the date must exist.  A ValueError is the result None.
Strptime(year, month, day) ==
    IF Len(year) # 4 \/ ~IsDigit(year) \/ ToInt(year) < 1 THEN None
    ELSE IF month # None
            /\ ~(IsDigit(month[1]) /\ Len(month[1]) <= 2
                 /\ ToInt(month[1]) \in 1..12)
    THEN None
    ELSE IF day # None
            /\ ~(IsDigit(day[1]) /\ Len(day[1]) <= 2
                 /\ ToInt(day[1]) \in 1..31)
    THEN None
    ELSE LET y == ToInt(year)
             m == IF month = None THEN 1 ELSE ToInt(month[1])
             dd == IF day = None THEN 1 ELSE ToInt(day[1])
         IN  IF dd > DaysInMonth(y, m) THEN None ELSE Some(MkDate(y, m, dd))

format_date(d) ==
    LET year0  == YearField(d)
        month0 == MonthField(d)
        day    == DayField(d)
        medline == ~Truthy(year0) /\ d.MedlineDate # None
        year   == IF medline THEN MedlineYear(d) ELSE year0
        month  == IF medline THEN MedlineMonth(d) ELSE month0
    IN  IF Truthy(year) /\ Truthy(month) /\ Truthy(day)
        THEN Strptime(year[1], month, day)
        ELSE IF Truthy(year) /\ Truthy(month)
        THEN Strptime(year[1], month, None)
        ELSE IF Truthy(year)
        THEN Strptime(year[1], None, None)
        ELSE None

\* Inputs of the date specification
YearTokens ==
    { None, Some(S4("2","0","2","0")), Some(S4("2","0","2","1")),
      Some(S4("2","0","2","3")), Some(S4("2","0","2","4")),
      Some(S2("2","0")), Some(S4("0","0","0","0")),
      Some(<< "2","0","2","1","1" >>) }
MonthTokens ==
    { None, Some(<< "2" >>), Some(<< "9" >>), Some(S2("0","2")),
      Some(S2("1","0")), Some(S2("1","2")), Some(S2("1","3")),
      Some(<< "0" >>), Some(S3("J","a","n")), Some(S3("f","e","b")),
      Some(S3("s","p","r")), Some(S3("x","y","z")) }
DayTokens ==
    { None, Some(<< "1" >>), Some(<< "7" >>), Some(S2("0","7")),
      Some(S2("1","5")), Some(S2("2","9")), Some(S2("3","0")),
      Some(S2("3","1")), Some(<< "0" >>), Some(S2("3","2")) }
MedlineTokens ==
    { None,
      Some(<< "2","0","2","0"," ","M","a","r","-","A","p","r" >>),
      Some(<< "S","p","r","i","n","g"," ","1","9","9","9" >>),
      Some(<< "1","9","9","8" >>),
      Some(<< "n","."," ","d","." >>) }

DateInputs ==
    [Year : YearTokens, Month : MonthTokens, Day : DayTokens,
     MedlineDate : MedlineTokens]

NoDateObj == [Year |-> None, Month |-> None, Day |-> None,
              MedlineDate |-> None]

\* One call of format_date on the drawn input
FormatDate ==
    /\ datePc = "call"
    /\ date' = format_date(date_obj)
    /\ datePc' = "done"
    /\ UNCHANGED date_obj
    /\ UNCHANGED notDate
---------------------------------------------------------------------------
(* format_author (scr/scraper_functs.py)                                   *)

\* str.replace(pat, rep) for a non-empty pattern
RECURSIVE Replace(_, _, _)
Replace(s, pat, rep) ==
    IF Len(s) < Len(pat) THEN s
    ELSE IF SubSeq(s, 1, Len(pat)) = pat
         THEN rep \o Replace(SubSeq(s, Len(pat) + 1, Len(s)), pat, rep)
         ELSE << s[1] >> \o Replace(Tail(s), pat, rep)

\* str.split(' '): the pieces between single blanks, empty pieces included
RECURSIVE SplitBlank(_)
SplitBlank(s) ==
    IF \A i \in DOMAIN s : s[i] # " " THEN << s >>
    ELSE LET i == CHOOSE j \in DOMAIN s :
                      s[j] = " " /\ \A k \in 1..(j - 1) : s[k] # " "
         IN  << SubSeq(s, 1, i - 1) >> \o SplitBlank(SubSeq(s, i + 1, Len(s)))

\* ' '.join(pieces) and ''.join(pieces)
RECURSIVE JoinBlank(_)
JoinBlank(ps) ==
    IF ps = << >> THEN << >>
    ELSE IF Len(ps) = 1 THEN ps[1]
         ELSE ps[1] \o << " " >> \o JoinBlank(Tail(ps))
RECURSIVE Concat(_)
Concat(ps) == IF ps = << >> THEN << >> ELSE ps[1] \o Concat(Tail(ps))

RECURSIVE FilterLonger(_, _)
FilterLonger(ps, n) ==
    IF ps = << >> THEN << >>
    ELSE IF Len(ps[1]) > n THEN << ps[1] >> \o FilterLonger(Tail(ps), n)
         ELSE FilterLonger(Tail(ps), n)

\* name.strip().replace('.', '').replace(',', '')
CleanPiece(name) == RemoveChar(RemoveChar(Strip(name), "."), ",")

\* the list comprehension of the first-name pieces that are not empty
FirstNamePieces(first_nm) ==
    LET raw == SplitBlank(first_nm)
    IN  FilterLonger([i \in DOMAIN raw |-> CleanPiece(raw[i])], 0)

\* A present key with a non-empty value, lowercased and stripped
NameField(v) ==
    IF v # None /\ Len(v[1]) > 0 THEN Some(Strip(Lower(v[1]))) ELSE None

format_author(a, index) ==
    LET first0 == NameField(a.ForeName)
        init0  == IF a.Initials # None /\ Len(a.Initials[1]) > 0
                  THEN Some(RemoveChar(Strip(Lower(a.Initials[1])), " "))
                  ELSE None
        last_nm == NameField(a.LastName)
        \* first name equal to the initials once blanks are removed
        first1 == IF Truthy(first0) /\ Some(RemoveChar(first0[1], " ")) = init0
                  THEN None ELSE first0
        spaced == Truthy(first1) /\ " " \in Range(first1[1])
        pieces == IF spaced THEN FirstNamePieces(first1[1]) ELSE << >>
        poss_initials ==
            IF spaced THEN Some(Concat([i \in DOMAIN pieces |-> << pieces[i][1] >>]))
            ELSE None
        first_nm == IF spaced /\ Truthy(init0) /\ poss_initials = init0
                    THEN Some(JoinBlank(FilterLonger(pieces, 1)))
                    ELSE first1
        initials == IF ~Truthy(init0)
                    THEN IF Truthy(poss_initials) THEN poss_initials
                         ELSE IF Truthy(first_nm) THEN Some(<< first_nm[1][1] >>)
                         ELSE init0
                    ELSE init0
    IN  [order |-> Str(index + 1), first |-> first_nm, last |-> last_nm,
         initials |-> initials]

\* The output of format_author presented again as an author entry: each
\* missing component is an absent key
AsAuthorDict(n) ==
    [ForeName |-> n.first, LastName |-> n.last, Initials |-> n.initials]

ForeNameTokens ==
    { None, Some(<< >>), Some(S4("J","a","n","e")),
      Some(<< "J","a","n","e"," ","Q" >>), Some(S3("J"," ","Q")),
      Some(S4("J","."," ","Q")), Some(<< "a","n","n"," ","l","e","e" >>),
      Some(S4(" ","A","l"," ")) }
InitialsTokens ==
    { None, Some(S2("J","Q")), Some(S3("J"," ","Q")), Some(<< "J" >>),
      Some(S2("A","L")), Some(<< " " >>) }
LastNameTokens ==
    { None, Some(S3("D","o","e")), Some(<< " ","v","a","n"," ","B","o" >>) }

AuthorInputs ==
    [ForeName : ForeNameTokens, Initials : InitialsTokens,
     LastName : LastNameTokens]

NoAuthor == [ForeName |-> None, Initials |-> None, LastName |-> None]
NoName == [order |-> << >>, first |-> None, last |-> None, initials |-> None]

\* format_author on the raw entry
FormatAuthor ==
    /\ authorPc = "call"
    /\ name_dict' = format_author(author_dict, 0)
    /\ authorPc' = "resolved"
    /\ UNCHANGED << author_dict, name_dict2 >>
    /\ UNCHANGED notAuthor

\* format_author on its own output
ReformatAuthor ==
    /\ authorPc = "resolved"
    /\ name_dict2' = format_author(AsAuthorDict(name_dict), 0)
    /\ authorPc' = "done"
    /\ UNCHANGED << author_dict, name_dict >>
    /\ UNCHANGED notAuthor
---------------------------------------------------------------------------
(* issue_vol and journal_content (scr/scraper_functs.py)                   *)

\* The longest prefix of s whose characters all satisfy "in cls" (inCls
\* TRUE) or all "not in cls" (inCls FALSE)
RECURSIVE PrefixLen(_, _, _)
PrefixLen(s, cls, inCls) ==
    IF s = << >> \/ ((s[1] \in cls) # inCls) THEN 0
    ELSE 1 + PrefixLen(Tail(s), cls, inCls)

\* re.findall('^([0-9]*)([^0-9]*)([0-9]*)', s)[0]
VolGroups(s) ==
    LET n0 == PrefixLen(s, Digits, TRUE)
        r1 == SubSeq(s, n0 + 1, Len(s))
        n1 == PrefixLen(r1, Digits, FALSE)
        r2 == SubSeq(r1, n1 + 1, Len(r1))
        n2 == PrefixLen(r2, Digits, TRUE)
    IN  << SubSeq(s, 1, n0), SubSeq(r1, 1, n1), SubSeq(r2, 1, n2) >>

AnyContains(search, pat) == \E i \in 1..3 : Contains(search[i], pat)

\* issue_vol returns the triple (vol, other_type, other)
issue_vol(in_vol0) ==
    LET in_vol == Strip(Lower(Replace(in_vol0, << "\\", "x", "a", "0" >>,
                                      << " " >>)))
        search == VolGroups(in_vol)
        numbered == (Contains(search[2], S3("v","o","l"))
                     \/ Contains(search[2], S3("i","s","s")))
                    /\ IsDigit(search[3])
        vol == IF search[1] # << >> THEN Some(ToInt(search[1]))
               ELSE IF numbered THEN Some(ToInt(search[3]))
               ELSE IF search[2] = << >> /\ search[3] # << >>
                    THEN Some(ToInt(search[3]))
               ELSE None
        other_type ==
            IF search[2] = << "-" >> THEN Some("Issue Range")
            ELSE IF AnyContains(search, S3("s","u","p"))
                 THEN Some("Supplement")
            ELSE IF AnyContains(search, S4("p","a","r","t"))
                    \/ AnyContains(search, S2("p","t"))
                    \/ AnyContains(search, S2("c","z"))
                 THEN Some("Part")
            ELSE IF AnyContains(search, S4("s","p","e","c"))
                 THEN Some("Special No.")
            ELSE None
        other == IF ~numbered THEN Some(search[3]) ELSE None
    IN  IF \E i \in DOMAIN in_vol : in_vol[i] \notin Digits
        THEN [vol |-> vol, other_type |-> other_type, other |-> other]
        ELSE IF IsDigit(in_vol)
             THEN [vol |-> Some(ToInt(in_vol)), other_type |-> None,
                   other |-> None]
             ELSE [vol |-> None, other_type |-> None, other |-> None]

\* A present key with a non-empty value
NonEmpty(v) == v # None /\ Len(v[1]) > 0

\* len(PubDate) > 0 for the PubDate mapping: it has at least one key
DateObjNonEmpty(d) ==
    d.Year # None \/ d.Month # None \/ d.Day # None \/ d.MedlineDate # None

\* The other_type / other_val written by the Volume branch of
\* journal_content: the Volume token's own pair, assigned whenever Volume
\* is present, whatever the Issue branch had stored
VolumeDesignator(issRes, volRes) ==
    [other_type |-> volRes.other_type, other_val |-> volRes.other]

journal_content(record) ==
    LET title == IF NonEmpty(record.Title)
                 THEN Some(Strip(Lower(record.Title[1]))) ELSE None
        abbrev == IF NonEmpty(record.ISOAbbreviation)
                  THEN Some(Strip(Lower(record.ISOAbbreviation[1])))
                  ELSE None
        noIssue == [vol |-> None, other_type |-> None, other |-> None]
    IN  IF record.JournalIssue # None
        THEN LET ji == record.JournalIssue[1]
                 hasIss == NonEmpty(ji.Issue)
                 hasVol == NonEmpty(ji.Volume)
                 issRes == IF hasIss THEN issue_vol(ji.Issue[1]) ELSE noIssue
                 volRes == IF hasVol THEN issue_vol(ji.Volume[1]) ELSE noIssue
                 desig == IF hasVol THEN VolumeDesignator(issRes, volRes)
                          ELSE [other_type |-> issRes.other_type,
                                other_val |-> issRes.other]
             IN  [journal |-> title, isoabbrev |-> abbrev,
                  issue |-> issRes.vol, volume |-> volRes.vol,
                  other_type |-> desig.other_type,
                  other_val |-> desig.other_val,
                  pubdate |-> IF ji.PubDate # None
                                 /\ DateObjNonEmpty(ji.PubDate[1])
                              THEN format_date(ji.PubDate[1]) ELSE None]
        ELSE [journal |-> title, isoabbrev |-> abbrev, issue |-> None,
              volume |-> None, other_type |-> None, other_val |-> None,
              pubdate |-> None]

\* Inputs of the journal specification
VolTokens ==
    { None, Some(<< >>), Some(S2("1","2")), Some(<< "7" >>),
      Some(S3("3","-","4")),
      Some(<< "S","u","p","p","l"," ","2" >>),
      Some(<< "1","2"," ","S","u","p","p","l"," ","2" >>),
      Some(<< "P","t"," ","1" >>),
      Some(<< "v","o","l"," ","3" >>),
      Some(<< "S","p","e","c"," ","N","o" >>) }
JournalDates ==
    { None,
      Some([Year |-> Some(S4("2","0","2","0")),
            Month |-> Some(S3("J","a","n")), Day |-> None,
            MedlineDate |-> None]),
      Some(NoDateObj) }
TitleTokens == { None, Some(<< "J"," ","T","e","s","t" >>) }

JournalIssues ==
    [Issue : VolTokens, Volume : VolTokens, PubDate : JournalDates]
JournalInputs ==
    [Title : TitleTokens, ISOAbbreviation : {None},
     JournalIssue : {None} \cup { Some(ji) : ji \in JournalIssues }]

NoJournal == [Title |-> None, ISOAbbreviation |-> None, JournalIssue |-> None]
NoJourData ==
    [journal |-> None, isoabbrev |-> None, issue |-> None, volume |-> None,
     other_type |-> None, other_val |-> None, pubdate |-> None]

\* One call of journal_content on the drawn journal sub-structure
JournalContent ==
    /\ journalPc = "call"
    /\ jour_data' = journal_content(jrecord)
    /\ journalPc' = "done"
    /\ UNCHANGED jrecord
    /\ UNCHANGED notJournal
---------------------------------------------------------------------------
(* format_df (pubmed_tool.py) and split_tables (sql_functs.py)             *)
(*                                                                         *)
(* A data frame is a sequence of rows.  The paper-level columns other than *)
(* pmid and numauthors are all handled alike by both functions (copied by  *)
(* explode, compared by drop_duplicates); title stands for them.           *)

NoneListed == << "N","o","n","e"," ","L","i","s","t","e","d" >>
FailedCapture == << "F","a","i","l","e","d"," ","C","a","p","t","u","r","e" >>

\* replace('', None) on a name column
BlankToNone(v) == IF v = Some(<< >>) THEN None ELSE v

\* The rows one article explodes to.  A missing author list was filled with
\* the single placeholder {'last': None}; its order is filled with 0.
ExplodeArticle(a) ==
    IF a.authors = None
    THEN << [pmid |-> a.pmid, title |-> a.title, order |-> Some(0),
             first |-> None, last |-> None, initials |-> None] >>
    ELSE [i \in DOMAIN a.authors[1] |->
             [pmid |-> a.pmid, title |-> a.title,
              order |-> Some(ToInt(a.authors[1][i].order)),
              first |-> BlankToNone(a.authors[1][i].first),
              last |-> BlankToNone(a.authors[1][i].last),
              initials |-> BlankToNone(a.authors[1][i].initials)]]

RECURSIVE Explode(_)
Explode(df) ==
    IF df = << >> THEN << >>
    ELSE ExplodeArticle(df[1]) \o Explode(Tail(df))

\* value_counts of pmid
PmidCount(rows, p) == Cardinality({ i \in DOMAIN rows : rows[i].pmid = p })

RECURSIVE DropNoLast(_)
DropNoLast(rows) ==
    IF rows = << >> THEN << >>
    ELSE IF rows[1].last = None THEN DropNoLast(Tail(rows))
         ELSE << rows[1] >> \o DropNoLast(Tail(rows))

\* The test that marks a row "None Listed": no last name, and its pmid
\* occurs on exactly one exploded row
IsNoneListedRow(rows, i) ==
    rows[i].last = None /\ PmidCount(rows, rows[i].pmid) = 1

\* The author-marking, dropping, counting and first-author steps
FormatRows(rows0) ==
    LET rows1 == [i \in DOMAIN rows0 |->
                    IF IsNoneListedRow(rows0, i)
                    THEN [rows0[i] EXCEPT !.order = None,
                                          !.last = Some(NoneListed)]
                    ELSE rows0[i]]
        rows2 == [i \in DOMAIN rows1 |->
                    IF rows1[i].order # None /\ rows1[i].order[1] < 2
                       /\ rows1[i].last = None
                    THEN [rows1[i] EXCEPT !.last = Some(FailedCapture)]
                    ELSE rows1[i]]
        rows3 == DropNoLast(rows2)
    IN  [i \in DOMAIN rows3 |->
            [pmid |-> rows3[i].pmid, title |-> rows3[i].title,
             numauthors |-> IF rows3[i].last = Some(NoneListed) THEN 0
                            ELSE PmidCount(rows3, rows3[i].pmid),
             firstauthor |-> (rows3[i].order = Some(1)),
             first |-> rows3[i].first, last |-> rows3[i].last,
             initials |-> rows3[i].initials]]

\* format_df: the frame of rows, or the failure raised at `t_df.order` when
\* no article of the batch has an author list (json_normalize then yields
\* the single column 'last')
format_df(df) ==
    IF \A i \in DOMAIN df : df[i].authors = None
    THEN [ok |-> FALSE, rows |-> << >>]
    ELSE [ok |-> TRUE, rows |-> FormatRows(Explode(df))]

\* drop_duplicates keeps the first of the rows with equal compared columns;
\* keys[i] is the compared part of rows[i]
RECURSIVE DropDuplicates(_, _, _)
DropDuplicates(rows, keys, seen) ==
    IF rows = << >> THEN << >>
    ELSE IF keys[1] \in seen
         THEN DropDuplicates(Tail(rows), Tail(keys), seen)
         ELSE << rows[1] >>
              \o DropDuplicates(Tail(rows), Tail(keys), seen \cup {keys[1]})

\* initials.str.cat([last, first], sep = ' '): missing when any part is
FullName(r) ==
    IF r.initials = None \/ r.last = None \/ r.first = None THEN None
    ELSE Some(r.initials[1] \o << " " >> \o r.last[1] \o << " " >>
              \o r.first[1])

PaperRow(r) == [pmid |-> r.pmid, title |-> r.title,
                numauthors |-> r.numauthors]
PairRow(r) == [pmid |-> r.pmid, fullname |-> FullName(r),
               firstauthor |-> r.firstauthor]
AuthorRow(r) == [fullname |-> FullName(r), first |-> r.first,
                 last |-> r.last, initials |-> r.initials]
\* drop_duplicates on the Authors frame compares the columns first, last
\* and initials; the index fullname is not compared
AuthorColumns(r) == [first |-> r.first, last |-> r.last,
                     initials |-> r.initials]

split_papers(rows) ==
    LET papers == [i \in DOMAIN rows |-> PaperRow(rows[i])]
    IN  DropDuplicates(papers, papers, {})
split_pairs(rows) ==
    LET pairs == [i \in DOMAIN rows |-> PairRow(rows[i])]
    IN  DropDuplicates(pairs, pairs, {})
split_authors(rows) ==
    DropDuplicates([i \in DOMAIN rows |-> AuthorRow(rows[i])],
                   [i \in DOMAIN rows |-> AuthorColumns(rows[i])], {})

\* Author entries as format_author returns them
NameOf(f, l, i) == [ForeName |-> f, LastName |-> l, Initials |-> i]
RawAuthors ==
    { NameOf(Some(S3("C"," ","D")), Some(<< "B" >>), Some(<< "A" >>)),
      NameOf(Some(<< "D" >>), Some(S3("B"," ","C")), Some(<< "A" >>)),
      NameOf(None, Some(S3("D","o","e")), None),
      NameOf(Some(S3("A","n","n")), None, None) }

MaxAuthors == 2
MaxArticles == 2
\* (pmid, title) of the articles: pmid 1 occurs with two different titles
PaperCells == { << 1, "t1" >>, << 1, "t2" >>, << 2, "t1" >> }

RawAuthorLists ==
    UNION { [1..n -> RawAuthors] : n \in 1..MaxAuthors }

\* The authors cell of the scraper's output: the list of format_author
\* results with their positions, or missing
AuthorCell(raw) == [i \in DOMAIN raw |-> format_author(raw[i], i - 1)]
AuthorCells == {None} \cup { Some(AuthorCell(raw)) : raw \in RawAuthorLists }

Articles ==
    { [pmid |-> pc[1], title |-> pc[2], authors |-> a] :
          pc \in PaperCells, a \in AuthorCells }
Batches == UNION { [1..n -> Articles] : n \in 1..MaxArticles }

NoFrame == [ok |-> FALSE, rows |-> << >>]

\* t_df = format_df(t_df); a failure ends the run
FormatDf ==
    /\ splitPc = "format"
    /\ t_df' = format_df(in_df)
    /\ splitPc' = IF t_df'.ok THEN "split" ELSE "failed"
    /\ UNCHANGED << in_df, papers_df, author_df, author_paper_df >>
    /\ UNCHANGED notSplit

\* papers, authors, pairs = split_tables(t_df)
SplitTables ==
    /\ splitPc = "split"
    /\ papers_df' = split_papers(t_df.rows)
    /\ author_df' = split_authors(t_df.rows)
    /\ author_paper_df' = split_pairs(t_df.rows)
    /\ splitPc' = "done"
    /\ UNCHANGED << in_df, t_df >>
    /\ UNCHANGED notSplit
---------------------------------------------------------------------------
(* validators.pmid, article_content and single_record                      *)

\* validators.pmid on a text: int(text.lower().strip()) must succeed (an
\* optional sign and digits), its decimal form must have 1 to 8 characters
\* and differ from '0'.  The result is the integer or None.
validate_pmid(text) ==
    LET t == Strip(Lower(text))
        neg == t # << >> /\ t[1] = "-"
        body == IF t # << >> /\ t[1] \in {"-", "+"} THEN Tail(t) ELSE t
    IN  IF ~IsDigit(body) THEN None
        ELSE LET n == ToInt(body)
                 shown == IF neg /\ n # 0 THEN << "-" >> \o Str(n) ELSE Str(n)
             IN  IF Len(shown) < 1 \/ Len(shown) > 8 THEN None
                 ELSE IF shown = << "0" >> THEN None
                 ELSE Some(IF neg THEN 0 - n ELSE n)

\* The article dictionary with the article's own date put first
ArticleItemsArticleFirst(title, adate, authors, jour) ==
    [title |-> title, authors |-> authors,
     journal |-> jour.journal, isoabbrev |-> jour.isoabbrev,
     issue |-> jour.issue, volume |-> jour.volume,
     other_type |-> jour.other_type, other_val |-> jour.other_val,
     pubdate |-> IF adate # None THEN adate ELSE jour.pubdate]

\* The dictionary article_content returns: the journal keys are copied from
\* journal_content's result, and the article date stands in for a missing
\* publication date
ArticleItems(title, adate, authors, jour) ==
    [title |-> title, authors |-> authors,
     journal |-> jour.journal, isoabbrev |-> jour.isoabbrev,
     issue |-> jour.issue, volume |-> jour.volume,
     other_type |-> jour.other_type, other_val |-> jour.other_val,
     pubdate |-> IF jour.pubdate = None /\ adate # None
                 THEN adate ELSE jour.pubdate]

\* article_content: the assembled article fields, or None when its body
\* raises (record['Journal'] missing, or journal_content returned None).
\* The fields copied without any rule between them (abstract, pagination,
\* language) are left out.
article_content(record) ==
    IF record.Journal = None THEN None
    ELSE Some(ArticleItems(
             IF NonEmpty(record.ArticleTitle)
             THEN Some(Strip(Lower(record.ArticleTitle[1]))) ELSE None,
             IF record.ArticleDate # None /\ Len(record.ArticleDate[1]) > 0
             THEN format_date(record.ArticleDate[1][1]) ELSE None,
             IF record.AuthorList # None /\ Len(record.AuthorList[1]) > 0
             THEN Some([i \in DOMAIN record.AuthorList[1] |->
                          format_author(record.AuthorList[1][i], i - 1)])
             ELSE None,
             journal_content(record.Journal[1])))

\* Lines 948-955 of single_record: the output record built from the
\* validated pmid and the article items; article_items.keys() raises when
\* article_content returned None
RecordData(pmid, article_items) ==
    IF article_items = None THEN [raised |-> TRUE, value |-> None]
    ELSE [raised |-> FALSE,
          value |-> Some([pmid |-> pmid,
                          title |-> article_items[1].title,
                          authors |-> article_items[1].authors,
                          journal |-> article_items[1].journal,
                          isoabbrev |-> article_items[1].isoabbrev,
                          issue |-> article_items[1].issue,
                          volume |-> article_items[1].volume,
                          other_type |-> article_items[1].other_type,
                          other_val |-> article_items[1].other_val,
                          pubdate |-> article_items[1].pubdate])]

\* The body of single_record's try block.  It raises when the PMID key is
\* absent or empty (the local pmid is then unbound at the call of
\* article_content), when the Article key is absent, and when
\* article_content returned None (None has no keys()).
single_record_body(record) ==
    IF ~NonEmpty(record.PMID) \/ record.Article = None
    THEN [raised |-> TRUE, value |-> None]
    ELSE RecordData(validate_pmid(record.PMID[1]),
                    article_content(record.Article[1]))

\* `except Exception`: every failure of the body becomes the result None
Caught(result) ==
    IF result.raised THEN [raised |-> FALSE, value |-> None] ELSE result

\* single_record without its `except Exception` handler
single_record_uncaught(record) == single_record_body(record)

\* single_record: the try block under its handler
single_record(record) == Caught(single_record_body(record))
---------------------------------------------------------------------------
(* scraper (pubmed_tool.py)                                                *)
(*                                                                         *)
(* chunksize is [kind, val]: kind "none", "int" (val the integer), "str"   *)
(* (val the text) or "float" (val the number in tenths).  pathIn is the    *)
(* path argument: "none" (falsy), "good" (validators.path accepts and      *)
(* returns it) or "bad" (validators.path returns None).  path is the local *)
(* variable: "none", "raw" (the argument as given) or "ok" (the validated  *)
(* path).                                                                  *)

DefaultChunk == 100

CsNone == [kind |-> "none", val |-> 0]
CsInt(n) == [kind |-> "int", val |-> n]
CsTruthy(c) ==
    CASE c.kind = "none" -> FALSE
      [] c.kind = "int" -> c.val # 0
      [] c.kind = "str" -> c.val # << >>
      [] c.kind = "float" -> c.val # 0

\* Lines 196-220: [raised, chunksize] of the chunksize conversion
validate_chunksize(c) ==
    IF CsTruthy(c) /\ c.kind # "int"
    THEN IF c.kind = "str" /\ IsDigit(c.val)
         THEN [raised |-> FALSE, chunksize |-> CsInt(ToInt(c.val))]
         ELSE IF c.kind = "str"
              THEN [raised |-> TRUE, chunksize |-> c]  \* str < int
              ELSE [raised |-> FALSE, chunksize |-> CsInt(DefaultChunk)]
    ELSE [raised |-> FALSE, chunksize |-> c]

\* validators.existing_csv raises unless the file exists with the fixed
\* header (a None path raises as well)
ExistingCsvRaises(p, exists, lines) ==
    p = "none" \/ ~exists \/ lines = << >> \/ lines[1] # "header"

\* The validation try block, lines 193-251
ScrValidate ==
    /\ scrPc = "validate"
    /\ LET vc == validate_chunksize(chunksize)
           cs == vc.chunksize
           noPath == ~vc.raised /\ CsTruthy(cs) /\ pathIn = "none"
           p == IF vc.raised \/ noPath
                THEN (IF pathIn = "none" THEN "none" ELSE "raw")
                ELSE (IF pathIn = "good" THEN "ok" ELSE "none")
           csvRaises == ~vc.raised /\ ~noPath /\ pathIn # "none"
                        /\ ~overwrite
                        /\ ExistingCsvRaises(p, fileExists, fileLines)
       IN  /\ chunksize' = cs
           /\ path' = p
           /\ return_df' = IF ~vc.raised /\ ~noPath /\ CsTruthy(cs)
                           THEN FALSE ELSE return_df
           /\ valError' = (vc.raised \/ noPath \/ csvRaises)
    /\ scrPc' = "search"
    /\ UNCHANGED << pathIn, overwrite, overwriteIn, fileExists, fileExistsIn,
                    fileLines, target_ids, idx, records, recIdx, output_dict,
                    fetches, writes, procError, success >>
    /\ UNCHANGED notScraper

MaxIds == 3
IdLists == UNION { [1..n -> 1..MaxIds] : n \in 0..MaxIds }
\* the search returns ids in increasing order without repetition
SearchResults ==
    { l \in IdLists : \A i \in 1..(Len(l) - 1) : l[i] < l[i + 1] }

Chunked == CsTruthy(chunksize) /\ path # "none"
Bulk == ~CsTruthy(chunksize)

\* range(0, len(target_ids), chunksize) is empty for a negative step
HasChunkAt(i, ids) ==
    chunksize.kind = "int" /\ chunksize.val > 0 /\ i < Len(ids)

\* pubmed_search_ids and the dispatch that follows it, lines 259-271/303
ScrSearch ==
    /\ scrPc = "search"
    /\ \E res \in {None} \cup { Some(l) : l \in SearchResults } :
         /\ target_ids' = res
         /\ IF res = None \/ res[1] = << >>
            THEN \* "No Records Found"
                 procError' = TRUE /\ success' = FALSE /\ scrPc' = "done"
            ELSE IF Chunked /\ chunksize.kind = "str"
            THEN \* range() with a text step
                 procError' = TRUE /\ success' = FALSE /\ scrPc' = "done"
            ELSE IF (Chunked /\ HasChunkAt(0, res[1])) \/ Bulk
            THEN procError' = FALSE /\ success' = FALSE /\ scrPc' = "fetch"
            ELSE \* no chunk to process, or chunksize without a path: the
                 \* success message, then `return chunk` of an unbound name
                 \* when return_df is still set
                 procError' = return_df /\ success' = TRUE /\ scrPc' = "done"
    /\ UNCHANGED << chunksize, pathIn, path, overwrite, overwriteIn,
                    return_df, fileExists, fileExistsIn, fileLines, idx,
                    records, recIdx, output_dict, fetches, writes, valError >>
    /\ UNCHANGED notScraper

\* The raw records the remote service can return for one id
TextOf(n) == Str(n)
GoodArticle(n) ==
    [ArticleTitle |-> Some(TextOf(n)), ArticleDate |-> None,
     AuthorList |-> None, Journal |-> Some(NoJournal)]
\* "zeroPMID" and "negPMID" are records whose PMID text is '0' and the id
\* with a minus sign; a PMID text that is not a number, or is longer than 8
\* digits, is treated by validators.pmid as '0' is
RecordShapes == {"good", "noPMID", "emptyPMID", "zeroPMID", "negPMID",
                 "noArticle", "noJournal"}
RawRecord(n, shape) ==
    [id |-> n,
     PMID |-> CASE shape = "noPMID" -> None
                [] shape = "emptyPMID" -> Some(<< >>)
                [] shape = "zeroPMID" -> Some(<< "0" >>)
                [] shape = "negPMID" -> Some(<< "-" >> \o TextOf(n))
                [] OTHER -> Some(TextOf(n)),
     Article |-> CASE shape = "noArticle" -> None
                   [] shape = "noJournal" ->
                        Some([GoodArticle(n) EXCEPT !.Journal = None])
                   [] OTHER -> Some(GoodArticle(n))]

ChunkIds ==
    IF Bulk THEN target_ids[1]
    ELSE SubSeq(target_ids[1], idx + 1,
                IF idx + chunksize.val < Len(target_ids[1])
                THEN idx + chunksize.val ELSE Len(target_ids[1]))

\* scr.pubmed_fetch_records(chunk_ids, email): the records, or None on a
\* reported failure
ScrFetch ==
    /\ scrPc = "fetch"
    /\ fetches' = Append(fetches, ChunkIds)
    /\ \/ records' = None
       \/ \E shapes \in [1..Len(ChunkIds) -> RecordShapes] :
            records' = Some([k \in 1..Len(ChunkIds) |->
                                RawRecord(ChunkIds[k], shapes[k])])
    /\ output_dict' = << >>
    /\ recIdx' = 1
    /\ scrPc' = "process"
    /\ UNCHANGED << chunksize, pathIn, path, overwrite, overwriteIn,
                    return_df, fileExists, fileExistsIn, fileLines,
                    target_ids, idx, writes, valError, procError, success >>
    /\ UNCHANGED notScraper

\* `for record in records` over a failed fetch: None is not iterable
ScrFetchFailed ==
    /\ scrPc = "process"
    /\ records = None
    /\ procError' = TRUE
    /\ scrPc' = "done"
    /\ UNCHANGED << chunksize, pathIn, path, overwrite, overwriteIn,
                    return_df, fileExists, fileExistsIn, fileLines,
                    target_ids, idx, records, recIdx, output_dict, fetches,
                    writes, valError, success >>
    /\ UNCHANGED notScraper

\* One iteration of the record loop, lines 281-285 / 315-319
ScrProcessRecord ==
    /\ scrPc = "process"
    /\ records # None
    /\ recIdx <= Len(records[1])
    /\ LET record_data == single_record(records[1][recIdx])
       IN  IF record_data.raised
           THEN /\ procError' = TRUE
                /\ scrPc' = "done"
                /\ UNCHANGED << output_dict, recIdx >>
           ELSE /\ output_dict' = IF record_data.value # None
                                  THEN Append(output_dict, record_data.value[1])
                                  ELSE output_dict
                /\ recIdx' = recIdx + 1
                /\ UNCHANGED << procError, scrPc >>
    /\ UNCHANGED << chunksize, pathIn, path, overwrite, overwriteIn,
                    return_df, fileExists, fileExistsIn, fileLines,
                    target_ids, idx, records, fetches, writes, valError,
                    success >>
    /\ UNCHANGED notScraper

\* WriteMode without the os.path.isfile test
WriteModeIgnoringFile(exists, ow) == IF ow THEN "w" ELSE "a"

\* Lines 293-299: the chunk is written with mode 'w' when the destination
\* is not yet a file or overwrite is set, with mode 'a' otherwise
WriteMode(exists, ow) == IF ~exists \/ ow THEN "w" ELSE "a"

\* to_csv(..., header = True): the header line, then one line per row
CsvLines(rows) == << "header" >> \o [i \in DOMAIN rows |-> "row"]

\* The end of a chunk in chunked mode: frame, write, next chunk or success
ScrWriteChunk ==
    /\ scrPc = "process"
    /\ records # None
    /\ recIdx > Len(records[1])
    /\ Chunked
    /\ LET mode == WriteMode(fileExists, overwrite)
       IN  /\ writes' = Append(writes, [mode |-> mode, chunk |-> Len(fetches)])
           /\ fileLines' = IF mode = "w" THEN CsvLines(output_dict)
                           ELSE fileLines \o CsvLines(output_dict)
           /\ fileExists' = TRUE
           /\ overwrite' = IF mode = "w" THEN FALSE ELSE overwrite
           /\ idx' = idx + chunksize.val
           /\ IF HasChunkAt(idx', target_ids[1])
              THEN scrPc' = "fetch" /\ success' = success
              ELSE scrPc' = "done" /\ success' = TRUE
    /\ UNCHANGED << chunksize, pathIn, path, return_df, overwriteIn,
                    fileExistsIn, target_ids, records, recIdx, output_dict,
                    fetches, valError, procError >>
    /\ UNCHANGED notScraper

\* The end of the single fetch in bulk mode, lines 323-333
ScrWriteBulk ==
    /\ scrPc = "process"
    /\ records # None
    /\ recIdx > Len(records[1])
    /\ Bulk
    /\ IF path # "none"
       THEN LET mode == IF overwrite THEN "w" ELSE "a"
            IN  /\ writes' = Append(writes, [mode |-> mode,
                                             chunk |-> Len(fetches)])
                /\ fileLines' = IF mode = "w" THEN CsvLines(output_dict)
                                ELSE fileLines \o CsvLines(output_dict)
                /\ fileExists' = TRUE
       ELSE UNCHANGED << writes, fileLines, fileExists >>
    /\ success' = TRUE
    /\ scrPc' = "done"
    /\ UNCHANGED << chunksize, pathIn, path, overwrite, overwriteIn,
                    return_df, fileExistsIn, target_ids, idx, records,
                    recIdx, output_dict, fetches, valError, procError >>
    /\ UNCHANGED notScraper

ChunkInputs ==
    { CsNone, CsInt(1), CsInt(2), CsInt(0 - 1),
      [kind |-> "str", val |-> << "2" >>],
      [kind |-> "str", val |-> << "x" >>],
      [kind |-> "float", val |-> 25] }

---------------------------------------------------------------------------
(* pubmed_search_ids (scr/scraper_functs.py)                               *)
(*                                                                         *)
(* max_returns is [kind, val]: kind "int" (val the integer), "str" (val    *)
(* the text), "float" (val the number in tenths), "nan" (a float that      *)
(* int() rejects) or "none" (None or any other type).  inputsValid tells   *)
(* whether keyword, dates and email passed their validators.  retmax is    *)
(* the maximum the search was issued with, missing when no search was      *)
(* issued.                                                                 *)

MaxReturnsDefault == 200000

MrNone == [kind |-> "none", val |-> 0]
MrInt(n) == [kind |-> "int", val |-> n]
MrStr(t) == [kind |-> "str", val |-> t]
MrFloat(tenths) == [kind |-> "float", val |-> tenths]

\* Lines 126-140: the conversion of max_returns to an integer
validate_max_returns(m) ==
    CASE m.kind = "int" -> m.val
      [] m.kind = "str" -> IF IsDigit(Strip(m.val)) THEN ToInt(Strip(m.val))
                           ELSE MaxReturnsDefault
      [] m.kind = "float" -> m.val \div 10          \* int(max_returns // 1)
      [] OTHER -> MaxReturnsDefault

\* Line 155: the search is issued only if every input, max_returns among
\* them, is truthy
SearchIssued(valid, m) == valid /\ validate_max_returns(m) # 0

\* One call of pubmed_search_ids: the search is issued with retmax and
\* returns the id list, or fails at the remote service; without a search
\* the result is None
SearchIds ==
    /\ searchPc = "call"
    /\ IF SearchIssued(inputsValid, max_returns)
       THEN /\ retmax' = Some(validate_max_returns(max_returns))
            /\ results' \in {None} \cup { Some(l) : l \in SearchResults }
       ELSE /\ retmax' = None
            /\ results' = None
    /\ searchPc' = "done"
    /\ UNCHANGED << max_returns, inputsValid >>
    /\ UNCHANGED notSearch

MaxReturnsInputs ==
    { MrInt(n) : n \in {0 - 5, 0 - 1, 0, 1, 5, MaxReturnsDefault} }
    \cup { MrStr(t) : t \in { << "1", "0" >>, << "0" >>, << " ", "7", " " >>,
                             << "-", "5" >>, << "a", "b", "c" >>, << >>,
                             << "1", ".", "5" >> } }
    \cup { MrFloat(t) : t \in {0 - 25, 0 - 5, 0, 5, 25, 100} }
    \cup { [kind |-> "nan", val |-> 0], MrNone }

---------------------------------------------------------------------------
(* upload and query (sql_functs.py), and their use by sql_full             *)
(*                                                                         *)
(* The database is a record of three tables; a table is missing (None) or  *)
(* present with its rows.  dbPathOk tells whether validators.path accepts  *)
(* the database path (it returns None otherwise).  conx is query's local   *)
(* variable: "unbound", "open" or "closed".  arg_any_nm, arg_last_nm,       *)
(* arg_first_nm and arg_initials_nm are query's arguments any_nm, last_nm, *)
(* first_nm and initials_nm.                                               *)

NoDb == [papers |-> None, authors |-> None, pairs |-> None]

\* .strip().lower() of a match term
NormTerm(t) == Lower(Strip(t))

\* Lines 424-431: the match terms after normalisation.  The first-name and
\* initials terms are computed from last_nm, which raises when last_nm is
\* None.
NormTerms(any, last, first, initials) ==
    LET last1 == IF Truthy(last) THEN Some(NormTerm(last[1])) ELSE last
    IN  [raised |-> (Truthy(first) \/ Truthy(initials)) /\ last1 = None,
         last |-> last1,
         first |-> IF Truthy(first) /\ last1 # None
                   THEN Some(NormTerm(last1[1])) ELSE first,
         initials |-> IF Truthy(initials) /\ last1 # None
                      THEN Some(NormTerm(last1[1])) ELSE initials,
         any |-> IF Truthy(any) THEN Some(NormTerm(any[1])) ELSE any]

\* One parenthesised predicate of the WHERE clause: the value is searched
\* in the listed columns of the authors table
Term(cols, val) == [cols |-> cols, val |-> val]

\* Lines 484-516: the predicates in the order they are joined with OR:
\* first, initials, last, then the any-field group
WhereTerms(t) ==
    (IF Truthy(t.first) THEN << Term({"first"}, t.first[1]) >> ELSE << >>)
    \o (IF Truthy(t.initials)
        THEN << Term({"initials"}, t.initials[1]) >> ELSE << >>)
    \o (IF Truthy(t.last) THEN << Term({"last"}, t.last[1]) >> ELSE << >>)
    \o (IF Truthy(t.any)
        THEN << Term({"last", "first", "initials"}, t.any[1]) >>
        ELSE << >>)

\* column LIKE '%val%': a case-insensitive substring test, false on NULL
TermMatches(term, a) ==
    \E c \in term.cols : a[c] # None /\ Contains(Lower(a[c][1]), term.val)

\* pairs.fullname == authors.fullname AND papers.pmid == pairs.pmid
JoinCondition(paper, pair, author) ==
    /\ pair.fullname # None /\ author.fullname # None
    /\ pair.fullname = author.fullname
    /\ paper.pmid = pair.pmid

\* The WHERE clause of lines 520-526: `t1 OR ... OR tn AND join`, in which
\* AND binds the join condition to the last predicate only
Where(terms, paper, pair, author) ==
    \/ \E i \in 1..(Len(terms) - 1) : TermMatches(terms[i], author)
    \/ /\ TermMatches(terms[Len(terms)], author)
       /\ JoinCondition(paper, pair, author)

\* The rows of FROM papers, pairs, authors that satisfy the WHERE clause
Selected(d, terms) ==
    { t \in (DOMAIN d.papers[1]) \X (DOMAIN d.pairs[1])
              \X (DOMAIN d.authors[1]) :
          Where(terms, d.papers[1][t[1]], d.pairs[1][t[2]],
                d.authors[1][t[3]]) }

\* GROUP BY pairs.fullname: one result row per fullname; the other columns
\* of the row come from one of the group's rows
Grouped(d, sel) ==
    { [fullname |-> f,
       rows |-> { [pmid |-> d.papers[1][t[1]].pmid,
                   firstauthor |-> d.pairs[1][t[2]].firstauthor] :
                      t \in { u \in sel : d.pairs[1][u[2]].fullname = f } }] :
          f \in { d.pairs[1][t[2]].fullname : t \in sel } }

QueryResult(m, error, raised, cx) ==
    [matches |-> m, error |-> error, raised |-> raised, conx |-> cx]

\* Lines 560-570: the handler reports the error; `finally: if conx` closes
\* the connection, or raises UnboundLocalError when the failure came before
\* conx was assigned
QueryFailed(cx) ==
    IF cx = "unbound" THEN QueryResult(None, TRUE, TRUE, "unbound")
    ELSE QueryResult(None, TRUE, FALSE, "closed")

\* query(): the result frame or None, whether an error was reported,
\* whether an exception reached the caller, and the connection
query(d, pathOk, any, last, first, initials) ==
    IF NormTerms(any, last, first, initials).raised
    THEN QueryFailed("unbound")               \* None.strip()
    ELSE IF ~pathOk THEN QueryFailed("unbound")   \* sqlite3.connect(None)
    ELSE IF d.papers = None \/ d.authors = None \/ d.pairs = None
    THEN QueryFailed("open")                  \* ValueError, lines 447-469
    ELSE IF WhereTerms(NormTerms(any, last, first, initials)) = << >>
    THEN QueryFailed("open")                  \* ''.join of a list, line 520
    ELSE QueryResult(
             Some(Grouped(d, Selected(d,
                 WhereTerms(NormTerms(any, last, first, initials))))),
             FALSE, FALSE, "closed")

\* One call of query()
Query ==
    /\ queryPc = "call"
    /\ LET r == query(db, dbPathOk, arg_any_nm, arg_last_nm, arg_first_nm,
                      arg_initials_nm)
       IN  /\ matches' = r.matches
           /\ queryError' = r.error
           /\ queryRaised' = r.raised
           /\ conx' = r.conx
    /\ queryPc' = "done"
    /\ UNCHANGED << db, dbPathOk, arg_any_nm, arg_last_nm, arg_first_nm,
                    arg_initials_nm >>
    /\ UNCHANGED << sqlVars, notQuery >>

\* to_sql into a table with a primary key fails on a repeated key; a
\* missing (NULL) key does not collide in a TEXT primary key
DuplicateKey(rows, col) ==
    \E i, j \in DOMAIN rows :
        i # j /\ rows[i][col] # None /\ rows[i][col] = rows[j][col]

\* upload(): each table in turn is dropped, created and filled; the first
\* failure ends the upload, is reported, and is not raised to the caller.
\* The result is [db, error].
upload(d, pathOk, papers, authors, pairs) ==
    IF ~pathOk THEN [db |-> d, error |-> TRUE]
    ELSE IF \E i, j \in DOMAIN papers :
                i # j /\ papers[i].pmid = papers[j].pmid
    THEN [db |-> [d EXCEPT !.papers = Some(<< >>)], error |-> TRUE]
    ELSE IF DuplicateKey(authors, "fullname")
    THEN [db |-> [d EXCEPT !.papers = Some(papers),
                           !.authors = Some(<< >>)], error |-> TRUE]
    ELSE [db |-> [papers |-> Some(papers), authors |-> Some(authors),
                  pairs |-> Some(pairs)], error |-> FALSE]

\* sql_full, lines 444-449: sql.upload(papers, authors, pairs, ...); the
\* call of sql.query follows unconditionally
Upload ==
    /\ sqlPc = "upload"
    /\ splitPc = "done"
    /\ LET r == upload(db, dbPathOk, papers_df, author_df, author_paper_df)
       IN  db' = r.db /\ uploadError' = r.error
    /\ sqlPc' = "query"
    /\ queryPc' = "call"
    /\ UNCHANGED << dbPathOk, arg_any_nm, arg_last_nm, arg_first_nm,
                    arg_initials_nm, matches, queryError, queryRaised, conx >>
    /\ UNCHANGED notQuery

\* Names in the store and match terms
Ann == << "a", "n", "n" >>
Bob == << "b", "o", "b" >>
Doe == << "d", "o", "e" >>
Roe == << "r", "o", "e" >>
AuthorOf(first, last, initials) ==
    [fullname |-> Some(initials \o << " " >> \o last \o << " " >> \o first),
     first |-> Some(first), last |-> Some(last), initials |-> Some(initials)]
AnnDoe == AuthorOf(Ann, Doe, << "a" >>)
BobRoe == AuthorOf(Bob, Roe, << "b" >>)
\* the Authors row of an article without authors: no fullname
NoneListedAuthor ==
    [fullname |-> None, first |-> None, last |-> Some(NoneListed),
     initials |-> None]
Paper(pmid, n) == [pmid |-> pmid, title |-> "t1", numauthors |-> n]
Pair(pmid, a, fa) == [pmid |-> pmid, fullname |-> a.fullname,
                      firstauthor |-> fa]

\* A store as upload leaves it: Ann Doe wrote papers 1 and 2, Bob Roe is
\* second author of paper 1, paper 3 lists no author
FullStore ==
    [papers |-> Some(<< Paper(1, 2), Paper(2, 1), Paper(3, 0) >>),
     authors |-> Some(<< AnnDoe, BobRoe, NoneListedAuthor >>),
     pairs |-> Some(<< Pair(1, AnnDoe, TRUE), Pair(1, BobRoe, FALSE),
                       Pair(2, AnnDoe, TRUE),
                       Pair(3, NoneListedAuthor, FALSE) >>)]
Stores ==
    { FullStore,
      [FullStore EXCEPT !.papers = None],
      [FullStore EXCEPT !.authors = None],
      [FullStore EXCEPT !.pairs = None],
      NoDb,
      \* an upload that failed on its Authors table: new Papers, old pairs
      [FullStore EXCEPT !.papers = Some(<< Paper(1, 2) >>),
                        !.authors = Some(<< >>)] }

LastTerms == { None, Some(<< >>), Some(Roe),
               Some(<< "D", "o", "e", " " >>) }
FirstTerms == { None, Some(Ann) }
InitialsTerms == { None, Some(<< "b" >>) }
AnyTerms == { None, Some(<< "O" >>) }

---------------------------------------------------------------------------
(* The field-level functions called directly on any Python value           *)
(*                                                                         *)
(* A Python value is [kind, val]: kind "none" (None), "int" (val the       *)
(* integer), "str" (val the text), "obj" (an object whose str() and len()  *)
(* raise) or "dict" (val the record of its keys, each an optional Python   *)
(* value).  The outcome of a call is [raised, value]: raised tells that an *)
(* exception left the function, value is what it returned.                 *)

PyNone == [kind |-> "none", val |-> << >>]
PyInt(n) == [kind |-> "int", val |-> n]
PyStr(s) == [kind |-> "str", val |-> s]
PyObj == [kind |-> "obj", val |-> << >>]
PyDict(fields) == [kind |-> "dict", val |-> fields]

NoOutcome == [raised |-> FALSE, value |-> None]

\* A key that is present with a value that is not text
NonText(fields, k) == fields[k] # None /\ fields[k][1].kind # "str"

\* The mapping with its text values; a key whose value is not text is only
\* looked at here when the function did not read it
TextFields(fields) ==
    [k \in DOMAIN fields |->
        IF fields[k] # None /\ fields[k][1].kind = "str"
        THEN Some(fields[k][1].val) ELSE None]

\* The try block of format_date raises when date_obj has no keys(), when
\* .lower() is called on a Year, Month or Day that is not text, and when
\* re.search is given a MedlineDate that is not text (only reached when the
\* year is falsy)
DateRaises(x) ==
    \/ x.kind # "dict"
    \/ \E k \in {"Year", "Month", "Day"} : NonText(x.val, k)
    \/ /\ NonText(x.val, "MedlineDate")
       /\ ~Truthy(YearField(TextFields(x.val)))

\* format_date without its outer `except Exception` handler
format_date_uncaught(x) ==
    IF DateRaises(x) THEN [raised |-> TRUE, value |-> None]
    ELSE [raised |-> FALSE, value |-> format_date(TextFields(x.val))]

\* format_date as called: the outer handler logs and returns None
format_date_call(x) ==
    IF DateRaises(x) THEN [raised |-> FALSE, value |-> None]
    ELSE [raised |-> FALSE, value |-> format_date(TextFields(x.val))]

\* The try block of format_author raises when author_dict has no keys() and
\* when len() or .lower() is applied to a present value that is not text
AuthorRaises(x) ==
    \/ x.kind # "dict"
    \/ \E k \in {"ForeName", "Initials", "LastName"} : NonText(x.val, k)

\* format_author as called: the name dictionary, or None from the handler
format_author_call(x) ==
    IF AuthorRaises(x) THEN [raised |-> FALSE, value |-> None]
    ELSE [raised |-> FALSE,
          value |-> Some(format_author(TextFields(x.val), 0))]

\* str(in_vol)
PyText(x) ==
    CASE x.kind = "none" -> << "n", "o", "n", "e" >>
      [] x.kind = "int" -> IF x.val < 0 THEN << "-" >> \o Str(0 - x.val)
                           ELSE Str(x.val)
      [] OTHER -> x.val

\* digit-only tokens: the elif branch of issue_vol left out
issue_vol_call_undigited(x) ==
    IF x.kind = "obj" THEN [raised |-> FALSE, value |-> None]
    ELSE [raised |-> FALSE,
          value |-> Some(IF IsDigit(Strip(PyText(x)))
                         THEN [vol |-> None, other_type |-> None,
                               other |-> None]
                         ELSE issue_vol(PyText(x)))]

\* issue_vol as called: the triple, or the single None of its handler when
\* str(in_vol) raises
issue_vol_call(x) ==
    IF x.kind = "obj" THEN [raised |-> FALSE, value |-> None]
    ELSE [raised |-> FALSE, value |-> Some(issue_vol(PyText(x)))]

\* article_content as called: the article fields, or None from its handler
article_content_call(record) ==
    [raised |-> FALSE, value |-> article_content(record)]

\* Inputs of the direct calls
NonMappings == { PyNone, PyInt(5), PyStr(S4("2","0","2","1")), PyObj }
YearValues ==
    { None, Some(PyNone), Some(PyInt(2021)), Some(PyStr(<< >>)),
      Some(PyStr(S4("2","0","2","1"))), Some(PyStr(S4("a","b","c","d"))) }
MonthValues ==
    { None, Some(PyInt(3)), Some(PyStr(<< >>)), Some(PyStr(<< "3" >>)),
      Some(PyStr(S3("M","a","r"))) }
DayValues ==
    { None, Some(PyNone), Some(PyStr(<< >>)), Some(PyStr(<< "5" >>)) }
MedlineValues ==
    { None, Some(PyInt(1998)), Some(PyStr(S4("1","9","9","8"))) }
DateArgs ==
    NonMappings \cup
    { PyDict(f) : f \in [Year : YearValues, Month : MonthValues,
                         Day : DayValues, MedlineDate : MedlineValues] }

ForeNameValues ==
    { None, Some(PyNone), Some(PyInt(5)), Some(PyStr(<< >>)),
      Some(PyStr(S4("J","a","n","e"))) }
InitialsValues ==
    { None, Some(PyInt(5)), Some(PyStr(<< >>)), Some(PyStr(<< "J" >>)) }
LastNameValues ==
    { None, Some(PyObj), Some(PyStr(<< >>)), Some(PyStr(S3("D","o","e"))) }
AuthorArgs ==
    NonMappings \cup
    { PyDict(f) : f \in [ForeName : ForeNameValues,
                         Initials : InitialsValues,
                         LastName : LastNameValues] }

IssueVolArgs ==
    { PyNone, PyInt(5), PyInt(0 - 5), PyObj, PyStr(<< >>),
      PyStr(<< "0" >>), PyStr(S2("1","2")), PyStr(S3("0","0","7")),
      PyStr(S3(" ","5"," ")), PyStr(S3("3","-","4")),
      PyStr(<< "1","2","-","1","3" >>), PyStr(<< "1","-" >>),
      PyStr(<< "S","u","p","p","l"," ","2" >>),
      PyStr(<< "v","o","l"," ","3" >>) }

\* Date structures that resolve (February 2019, January 2020), one that
\* does not (a two-digit year) and one without any key
Feb2019 == [Year |-> Some(S4("2","0","1","9")), Month |-> Some(<< "2" >>),
            Day |-> None, MedlineDate |-> None]
Jan2020 == [Year |-> Some(S4("2","0","2","0")),
            Month |-> Some(S3("J","a","n")), Day |-> None,
            MedlineDate |-> None]
BadYear == [Year |-> Some(S2("2","0")), Month |-> Some(<< "2" >>),
            Day |-> None, MedlineDate |-> None]
ArticleDates ==
    { None, Some(<< >>), Some(<< Feb2019 >>), Some(<< BadYear >>) }
PubDates == { None, Some(NoDateObj), Some(Jan2020), Some(BadYear) }
ArticleJournals ==
    { None, Some(NoJournal) } \cup
    { Some([Title |-> t, ISOAbbreviation |-> None,
            JournalIssue |-> Some([Issue |-> None, Volume |-> v,
                                   PubDate |-> p])]) :
        t \in TitleTokens, v \in { None, Some(<< "7" >>) }, p \in PubDates }
ArticleArgs ==
    [ArticleTitle : TitleTokens, ArticleDate : ArticleDates,
     AuthorList : { None, Some(<< >>) }, Journal : ArticleJournals]

\* One direct call of each function on the drawn argument
NormDate ==
    /\ normPc = "call" /\ norm_fn = "format_date"
    /\ norm_out' = format_date_call(norm_arg)
    /\ normPc' = "done"
    /\ UNCHANGED << norm_fn, norm_arg >>
    /\ UNCHANGED notNorm

NormAuthor ==
    /\ normPc = "call" /\ norm_fn = "format_author"
    /\ norm_out' = format_author_call(norm_arg)
    /\ normPc' = "done"
    /\ UNCHANGED << norm_fn, norm_arg >>
    /\ UNCHANGED notNorm

NormIssueVol ==
    /\ normPc = "call" /\ norm_fn = "issue_vol"
    /\ norm_out' = issue_vol_call(norm_arg)
    /\ normPc' = "done"
    /\ UNCHANGED << norm_fn, norm_arg >>
    /\ UNCHANGED notNorm

NormArticle ==
    /\ normPc = "call" /\ norm_fn = "article_content"
    /\ norm_out' = article_content_call(norm_arg)
    /\ normPc' = "done"
    /\ UNCHANGED << norm_fn, norm_arg >>
    /\ UNCHANGED notNorm

---------------------------------------------------------------------------
(* Specifications: one per entry point.  Each starts the entry point on an *)
(* input drawn from its input set and leaves the other entry points idle.  *)

\* format_date is called on a date structure
InitDate ==
    /\ date_obj \in DateInputs /\ date = None /\ datePc = "call"
    /\ author_dict = NoAuthor /\ name_dict = NoName /\ name_dict2 = NoName
    /\ authorPc = "idle"
    /\ jrecord = NoJournal /\ jour_data = NoJourData /\ journalPc = "idle"
    /\ in_df = << >> /\ t_df = NoFrame /\ papers_df = << >>
    /\ author_df = << >> /\ author_paper_df = << >> /\ splitPc = "idle"
    /\ chunksize = CsNone /\ pathIn = "none" /\ path = "none"
    /\ overwrite = FALSE /\ overwriteIn = FALSE /\ return_df = FALSE
    /\ fileExists = FALSE /\ fileExistsIn = FALSE /\ fileLines = << >>
    /\ target_ids = None /\ idx = 0 /\ records = None /\ recIdx = 1
    /\ output_dict = << >> /\ fetches = << >> /\ writes = << >>
    /\ valError = FALSE /\ procError = FALSE /\ success = FALSE
    /\ scrPc = "idle"
    /\ db = NoDb /\ dbPathOk = TRUE
    /\ arg_any_nm = None /\ arg_last_nm = None /\ arg_first_nm = None
    /\ arg_initials_nm = None
    /\ matches = None /\ queryError = FALSE /\ queryRaised = FALSE
    /\ conx = "unbound" /\ queryPc = "idle"
    /\ uploadError = FALSE /\ sqlPc = "idle"
    /\ max_returns = MrNone /\ inputsValid = TRUE /\ retmax = None
    /\ results = None /\ searchPc = "idle"
    /\ norm_fn = "idle" /\ norm_arg = PyNone /\ norm_out = NoOutcome
    /\ normPc = "idle"

NextDate == FormatDate
SpecDate == InitDate /\ [][NextDate]_vars

\* format_author is called on an author entry, then on its own output
InitAuthor ==
    /\ date_obj = NoDateObj /\ date = None /\ datePc = "idle"
    /\ author_dict \in AuthorInputs /\ name_dict = NoName
    /\ name_dict2 = NoName /\ authorPc = "call"
    /\ jrecord = NoJournal /\ jour_data = NoJourData /\ journalPc = "idle"
    /\ in_df = << >> /\ t_df = NoFrame /\ papers_df = << >>
    /\ author_df = << >> /\ author_paper_df = << >> /\ splitPc = "idle"
    /\ chunksize = CsNone /\ pathIn = "none" /\ path = "none"
    /\ overwrite = FALSE /\ overwriteIn = FALSE /\ return_df = FALSE
    /\ fileExists = FALSE /\ fileExistsIn = FALSE /\ fileLines = << >>
    /\ target_ids = None /\ idx = 0 /\ records = None /\ recIdx = 1
    /\ output_dict = << >> /\ fetches = << >> /\ writes = << >>
    /\ valError = FALSE /\ procError = FALSE /\ success = FALSE
    /\ scrPc = "idle"
    /\ db = NoDb /\ dbPathOk = TRUE
    /\ arg_any_nm = None /\ arg_last_nm = None /\ arg_first_nm = None
    /\ arg_initials_nm = None
    /\ matches = None /\ queryError = FALSE /\ queryRaised = FALSE
    /\ conx = "unbound" /\ queryPc = "idle"
    /\ uploadError = FALSE /\ sqlPc = "idle"
    /\ max_returns = MrNone /\ inputsValid = TRUE /\ retmax = None
    /\ results = None /\ searchPc = "idle"
    /\ norm_fn = "idle" /\ norm_arg = PyNone /\ norm_out = NoOutcome
    /\ normPc = "idle"

NextAuthor == FormatAuthor \/ ReformatAuthor
SpecAuthor == InitAuthor /\ [][NextAuthor]_vars

\* journal_content is called on a journal sub-structure
InitJournal ==
    /\ date_obj = NoDateObj /\ date = None /\ datePc = "idle"
    /\ author_dict = NoAuthor /\ name_dict = NoName /\ name_dict2 = NoName
    /\ authorPc = "idle"
    /\ jrecord \in JournalInputs /\ jour_data = NoJourData
    /\ journalPc = "call"
    /\ in_df = << >> /\ t_df = NoFrame /\ papers_df = << >>
    /\ author_df = << >> /\ author_paper_df = << >> /\ splitPc = "idle"
    /\ chunksize = CsNone /\ pathIn = "none" /\ path = "none"
    /\ overwrite = FALSE /\ overwriteIn = FALSE /\ return_df = FALSE
    /\ fileExists = FALSE /\ fileExistsIn = FALSE /\ fileLines = << >>
    /\ target_ids = None /\ idx = 0 /\ records = None /\ recIdx = 1
    /\ output_dict = << >> /\ fetches = << >> /\ writes = << >>
    /\ valError = FALSE /\ procError = FALSE /\ success = FALSE
    /\ scrPc = "idle"
    /\ db = NoDb /\ dbPathOk = TRUE
    /\ arg_any_nm = None /\ arg_last_nm = None /\ arg_first_nm = None
    /\ arg_initials_nm = None
    /\ matches = None /\ queryError = FALSE /\ queryRaised = FALSE
    /\ conx = "unbound" /\ queryPc = "idle"
    /\ uploadError = FALSE /\ sqlPc = "idle"
    /\ max_returns = MrNone /\ inputsValid = TRUE /\ retmax = None
    /\ results = None /\ searchPc = "idle"
    /\ norm_fn = "idle" /\ norm_arg = PyNone /\ norm_out = NoOutcome
    /\ normPc = "idle"

NextJournal == JournalContent
SpecJournal == InitJournal /\ [][NextJournal]_vars

\* sql_full formats and splits a batch read from the scraper's CSV
InitSplit ==
    /\ date_obj = NoDateObj /\ date = None /\ datePc = "idle"
    /\ author_dict = NoAuthor /\ name_dict = NoName /\ name_dict2 = NoName
    /\ authorPc = "idle"
    /\ jrecord = NoJournal /\ jour_data = NoJourData /\ journalPc = "idle"
    /\ in_df \in Batches /\ t_df = NoFrame /\ papers_df = << >>
    /\ author_df = << >> /\ author_paper_df = << >> /\ splitPc = "format"
    /\ chunksize = CsNone /\ pathIn = "none" /\ path = "none"
    /\ overwrite = FALSE /\ overwriteIn = FALSE /\ return_df = FALSE
    /\ fileExists = FALSE /\ fileExistsIn = FALSE /\ fileLines = << >>
    /\ target_ids = None /\ idx = 0 /\ records = None /\ recIdx = 1
    /\ output_dict = << >> /\ fetches = << >> /\ writes = << >>
    /\ valError = FALSE /\ procError = FALSE /\ success = FALSE
    /\ scrPc = "idle"
    /\ db = NoDb /\ dbPathOk = TRUE
    /\ arg_any_nm = None /\ arg_last_nm = None /\ arg_first_nm = None
    /\ arg_initials_nm = None
    /\ matches = None /\ queryError = FALSE /\ queryRaised = FALSE
    /\ conx = "unbound" /\ queryPc = "idle"
    /\ uploadError = FALSE /\ sqlPc = "idle"
    /\ max_returns = MrNone /\ inputsValid = TRUE /\ retmax = None
    /\ results = None /\ searchPc = "idle"
    /\ norm_fn = "idle" /\ norm_arg = PyNone /\ norm_out = NoOutcome
    /\ normPc = "idle"

NextSplit == FormatDf \/ SplitTables
SpecSplit == InitSplit /\ [][NextSplit]_vars

\* scraper is called
InitScraper ==
    /\ date_obj = NoDateObj /\ date = None /\ datePc = "idle"
    /\ author_dict = NoAuthor /\ name_dict = NoName /\ name_dict2 = NoName
    /\ authorPc = "idle"
    /\ jrecord = NoJournal /\ jour_data = NoJourData /\ journalPc = "idle"
    /\ in_df = << >> /\ t_df = NoFrame /\ papers_df = << >>
    /\ author_df = << >> /\ author_paper_df = << >> /\ splitPc = "idle"
    /\ chunksize \in ChunkInputs
    /\ pathIn \in {"none", "good", "bad"}
    /\ path = (IF pathIn = "none" THEN "none" ELSE "raw")
    /\ overwrite \in BOOLEAN /\ overwriteIn = overwrite
    /\ return_df \in BOOLEAN
    /\ fileExists \in BOOLEAN /\ fileExistsIn = fileExists
    /\ fileLines \in (IF fileExists
                      THEN { << "header", "row" >>, << "foreign" >> }
                      ELSE { << >> })
    /\ target_ids = None /\ idx = 0 /\ records = None /\ recIdx = 1
    /\ output_dict = << >> /\ fetches = << >> /\ writes = << >>
    /\ valError = FALSE /\ procError = FALSE /\ success = FALSE
    /\ scrPc = "validate"
    /\ db = NoDb /\ dbPathOk = TRUE
    /\ arg_any_nm = None /\ arg_last_nm = None /\ arg_first_nm = None
    /\ arg_initials_nm = None
    /\ matches = None /\ queryError = FALSE /\ queryRaised = FALSE
    /\ conx = "unbound" /\ queryPc = "idle"
    /\ uploadError = FALSE /\ sqlPc = "idle"
    /\ max_returns = MrNone /\ inputsValid = TRUE /\ retmax = None
    /\ results = None /\ searchPc = "idle"
    /\ norm_fn = "idle" /\ norm_arg = PyNone /\ norm_out = NoOutcome
    /\ normPc = "idle"

NextScraper ==
    \/ ScrValidate
    \/ ScrSearch
    \/ ScrFetch
    \/ ScrFetchFailed
    \/ ScrProcessRecord
    \/ ScrWriteChunk
    \/ ScrWriteBulk
SpecScraper == InitScraper /\ [][NextScraper]_vars

\* query is called on a store
InitQuery ==
    /\ date_obj = NoDateObj /\ date = None /\ datePc = "idle"
    /\ author_dict = NoAuthor /\ name_dict = NoName /\ name_dict2 = NoName
    /\ authorPc = "idle"
    /\ jrecord = NoJournal /\ jour_data = NoJourData /\ journalPc = "idle"
    /\ in_df = << >> /\ t_df = NoFrame /\ papers_df = << >>
    /\ author_df = << >> /\ author_paper_df = << >> /\ splitPc = "idle"
    /\ chunksize = CsNone /\ pathIn = "none" /\ path = "none"
    /\ overwrite = FALSE /\ overwriteIn = FALSE /\ return_df = FALSE
    /\ fileExists = FALSE /\ fileExistsIn = FALSE /\ fileLines = << >>
    /\ target_ids = None /\ idx = 0 /\ records = None /\ recIdx = 1
    /\ output_dict = << >> /\ fetches = << >> /\ writes = << >>
    /\ valError = FALSE /\ procError = FALSE /\ success = FALSE
    /\ scrPc = "idle"
    /\ db \in Stores /\ dbPathOk \in BOOLEAN
    /\ arg_any_nm \in AnyTerms /\ arg_last_nm \in LastTerms
    /\ arg_first_nm \in FirstTerms /\ arg_initials_nm \in InitialsTerms
    /\ matches = None /\ queryError = FALSE /\ queryRaised = FALSE
    /\ conx = "unbound" /\ queryPc = "call"
    /\ uploadError = FALSE /\ sqlPc = "idle"
    /\ max_returns = MrNone /\ inputsValid = TRUE /\ retmax = None
    /\ results = None /\ searchPc = "idle"
    /\ norm_fn = "idle" /\ norm_arg = PyNone /\ norm_out = NoOutcome
    /\ normPc = "idle"

NextQuery == Query
SpecQuery == InitQuery /\ [][NextQuery]_vars

\* sql_full is called on a batch, with a store that is new or holds the
\* tables of an earlier run
InitSql ==
    /\ date_obj = NoDateObj /\ date = None /\ datePc = "idle"
    /\ author_dict = NoAuthor /\ name_dict = NoName /\ name_dict2 = NoName
    /\ authorPc = "idle"
    /\ jrecord = NoJournal /\ jour_data = NoJourData /\ journalPc = "idle"
    /\ in_df \in Batches /\ t_df = NoFrame /\ papers_df = << >>
    /\ author_df = << >> /\ author_paper_df = << >> /\ splitPc = "format"
    /\ chunksize = CsNone /\ pathIn = "none" /\ path = "none"
    /\ overwrite = FALSE /\ overwriteIn = FALSE /\ return_df = FALSE
    /\ fileExists = FALSE /\ fileExistsIn = FALSE /\ fileLines = << >>
    /\ target_ids = None /\ idx = 0 /\ records = None /\ recIdx = 1
    /\ output_dict = << >> /\ fetches = << >> /\ writes = << >>
    /\ valError = FALSE /\ procError = FALSE /\ success = FALSE
    /\ scrPc = "idle"
    /\ db \in { NoDb, FullStore } /\ dbPathOk \in BOOLEAN
    /\ arg_any_nm \in AnyTerms /\ arg_last_nm = None
    /\ arg_first_nm = None /\ arg_initials_nm = None
    /\ matches = None /\ queryError = FALSE /\ queryRaised = FALSE
    /\ conx = "unbound" /\ queryPc = "wait"
    /\ uploadError = FALSE /\ sqlPc = "upload"
    /\ max_returns = MrNone /\ inputsValid = TRUE /\ retmax = None
    /\ results = None /\ searchPc = "idle"
    /\ norm_fn = "idle" /\ norm_arg = PyNone /\ norm_out = NoOutcome
    /\ normPc = "idle"

NextSql == FormatDf \/ SplitTables \/ Upload \/ Query
SpecSql == InitSql /\ [][NextSql]_vars

\* pubmed_search_ids is called
InitSearch ==
    /\ date_obj = NoDateObj /\ date = None /\ datePc = "idle"
    /\ author_dict = NoAuthor /\ name_dict = NoName /\ name_dict2 = NoName
    /\ authorPc = "idle"
    /\ jrecord = NoJournal /\ jour_data = NoJourData /\ journalPc = "idle"
    /\ in_df = << >> /\ t_df = NoFrame /\ papers_df = << >>
    /\ author_df = << >> /\ author_paper_df = << >> /\ splitPc = "idle"
    /\ chunksize = CsNone /\ pathIn = "none" /\ path = "none"
    /\ overwrite = FALSE /\ overwriteIn = FALSE /\ return_df = FALSE
    /\ fileExists = FALSE /\ fileExistsIn = FALSE /\ fileLines = << >>
    /\ target_ids = None /\ idx = 0 /\ records = None /\ recIdx = 1
    /\ output_dict = << >> /\ fetches = << >> /\ writes = << >>
    /\ valError = FALSE /\ procError = FALSE /\ success = FALSE
    /\ scrPc = "idle"
    /\ db = NoDb /\ dbPathOk = TRUE
    /\ arg_any_nm = None /\ arg_last_nm = None /\ arg_first_nm = None
    /\ arg_initials_nm = None
    /\ matches = None /\ queryError = FALSE /\ queryRaised = FALSE
    /\ conx = "unbound" /\ queryPc = "idle"
    /\ uploadError = FALSE /\ sqlPc = "idle"
    /\ max_returns \in MaxReturnsInputs /\ inputsValid \in BOOLEAN
    /\ retmax = None /\ results = None /\ searchPc = "call"
    /\ norm_fn = "idle" /\ norm_arg = PyNone /\ norm_out = NoOutcome
    /\ normPc = "idle"

NextSearch == SearchIds
SpecSearch == InitSearch /\ [][NextSearch]_vars

\* One field-level function is called directly
InitNorm ==
    /\ date_obj = NoDateObj /\ date = None /\ datePc = "idle"
    /\ author_dict = NoAuthor /\ name_dict = NoName /\ name_dict2 = NoName
    /\ authorPc = "idle"
    /\ jrecord = NoJournal /\ jour_data = NoJourData /\ journalPc = "idle"
    /\ in_df = << >> /\ t_df = NoFrame /\ papers_df = << >>
    /\ author_df = << >> /\ author_paper_df = << >> /\ splitPc = "idle"
    /\ chunksize = CsNone /\ pathIn = "none" /\ path = "none"
    /\ overwrite = FALSE /\ overwriteIn = FALSE /\ return_df = FALSE
    /\ fileExists = FALSE /\ fileExistsIn = FALSE /\ fileLines = << >>
    /\ target_ids = None /\ idx = 0 /\ records = None /\ recIdx = 1
    /\ output_dict = << >> /\ fetches = << >> /\ writes = << >>
    /\ valError = FALSE /\ procError = FALSE /\ success = FALSE
    /\ scrPc = "idle"
    /\ db = NoDb /\ dbPathOk = TRUE
    /\ arg_any_nm = None /\ arg_last_nm = None /\ arg_first_nm = None
    /\ arg_initials_nm = None
    /\ matches = None /\ queryError = FALSE /\ queryRaised = FALSE
    /\ conx = "unbound" /\ queryPc = "idle"
    /\ uploadError = FALSE /\ sqlPc = "idle"
    /\ max_returns = MrNone /\ inputsValid = TRUE /\ retmax = None
    /\ results = None /\ searchPc = "idle"
    /\ \/ norm_fn = "format_date" /\ norm_arg \in DateArgs
       \/ norm_fn = "format_author" /\ norm_arg \in AuthorArgs
       \/ norm_fn = "issue_vol" /\ norm_arg \in IssueVolArgs
       \/ norm_fn = "article_content" /\ norm_arg \in ArticleArgs
    /\ norm_out = NoOutcome /\ normPc = "call"

NextNorm == NormDate \/ NormAuthor \/ NormIssueVol \/ NormArticle
SpecNorm == InitNorm /\ [][NextNorm]_vars

\* Any one entry point is called
Init ==
    \/ InitDate
    \/ InitAuthor
    \/ InitJournal
    \/ InitSplit
    \/ InitScraper
    \/ InitQuery
    \/ InitSql
    \/ InitSearch
    \/ InitNorm
Next ==
    \/ FormatDate
    \/ FormatAuthor
    \/ ReformatAuthor
    \/ JournalContent
    \/ FormatDf
    \/ SplitTables
    \/ ScrValidate
    \/ ScrSearch
    \/ ScrFetch
    \/ ScrFetchFailed
    \/ ScrProcessRecord
    \/ ScrWriteChunk
    \/ ScrWriteBulk
    \/ Upload
    \/ Query
    \/ SearchIds
    \/ NormDate
    \/ NormAuthor
    \/ NormIssueVol
    \/ NormArticle
Spec == Init /\ [][Next]_vars

---------------------------------------------------------------------------
(* Properties                                                              *)

\* A raw record that single_record can assemble: PMID present and not
\* empty, Article present, Journal present
WellFormed(rec) ==
    /\ rec.PMID # None /\ rec.PMID[1] # << >>
    /\ rec.Article # None
    /\ rec.Article[1].Journal # None

RECURSIVE TitlesOfWellFormed(_)
TitlesOfWellFormed(recs) ==
    IF recs = << >> THEN << >>
    ELSE IF WellFormed(recs[1])
         THEN << Some(TextOf(recs[1].id)) >> \o TitlesOfWellFormed(Tail(recs))
         ELSE TitlesOfWellFormed(Tail(recs))

\* C1 - Record isolation.  While and after the record loop runs over a
\* fetched batch, the rows collected so far are exactly the well-formed
\* records among those already visited, in their original order: a record
\* whose assembly fails adds no row and does not stop the loop.  No
\* processing error is ever reported while a fetched batch is at hand.
C1_RecordIsolation ==
    /\ records # None =>
          [i \in DOMAIN output_dict |-> output_dict[i].title]
              = TitlesOfWellFormed(SubSeq(records[1], 1, recIdx - 1))
    /\ procError => records = None

\* C1 witness: a batch of three records whose second record failed was
\* walked to its end and the first and third records were emitted
C1_Witness ==
    /\ records # None /\ Len(records[1]) = 3 /\ recIdx = 4
    /\ WellFormed(records[1][1]) /\ ~WellFormed(records[1][2])
    /\ WellFormed(records[1][3])
    /\ Len(output_dict) = 2

\* C2 - Chunk write sequencing.  In chunked mode only the first write of a
\* run can use mode 'w', and it does exactly when overwrite was requested
\* or the destination did not exist; every later write uses mode 'a';
\* write k is the write of chunk k, and chunk k+1 is fetched only once
\* chunk k is written.
C2_ChunkWriteSequencing ==
    (scrPc # "validate" /\ Chunked) =>
        /\ \A k \in DOMAIN writes :
              /\ writes[k].chunk = k
              /\ k > 1 => writes[k].mode = "a"
        /\ writes # << >> =>
              (writes[1].mode = "w" <=> (overwriteIn \/ ~fileExistsIn))
        /\ scrPc = "fetch" => Len(fetches) = Len(writes)
        /\ scrPc = "process" => Len(fetches) = Len(writes) + 1

\* C2 witness: a chunked run over an existing destination with overwrite
\* requested has written three chunks
C2_Witness ==
    /\ Chunked /\ scrPc = "done" /\ Len(writes) = 3
    /\ overwriteIn /\ fileExistsIn
    /\ writes[1].mode = "w"

\* C3 - Designator preservation.  With Volume and Issue both present, the
\* Issue resolving to a designator and the Volume purely numeric,
\* journal_content returns the Issue's designator kind and value together
\* with the numeric volume.
C3_DesignatorPreserved ==
    (/\ journalPc = "done"
     /\ jrecord.JournalIssue # None
     /\ NonEmpty(jrecord.JournalIssue[1].Issue)
     /\ NonEmpty(jrecord.JournalIssue[1].Volume)
     /\ issue_vol(jrecord.JournalIssue[1].Issue[1]).other_type # None
     /\ IsDigit(jrecord.JournalIssue[1].Volume[1]))
    => /\ jour_data.volume = Some(ToInt(jrecord.JournalIssue[1].Volume[1]))
       /\ jour_data.other_type
            = issue_vol(jrecord.JournalIssue[1].Issue[1]).other_type
       /\ jour_data.other_val
            = issue_vol(jrecord.JournalIssue[1].Issue[1]).other

MonthNames ==
    << S3("j","a","n"), S3("f","e","b"), S3("m","a","r"), S3("a","p","r"),
       S3("m","a","y"), S3("j","u","n"), S3("j","u","l"), S3("a","u","g"),
       S3("s","e","p"), S3("o","c","t"), S3("n","o","v"), S3("d","e","c") >>

\* The calendar reading of a date input: its fields as numbers
NumericMonth(tok) == IsDigit(tok) /\ Len(tok) <= 2
CalendarMonth(tok) ==
    IF NumericMonth(tok) THEN ToInt(tok)
    ELSE CHOOSE i \in DOMAIN MonthNames : MonthNames[i] = Lower(tok)
WellFormedYear(d) ==
    d.Year # None /\ IsDigit(d.Year[1]) /\ Len(d.Year[1]) = 4
    /\ ToInt(d.Year[1]) >= 1
WellFormedMonth(d) ==
    d.Month # None
    /\ \/ NumericMonth(d.Month[1]) /\ ToInt(d.Month[1]) \in 1..12
       \/ Lower(d.Month[1]) \in Range(MonthNames)
WellFormedDay(d) ==
    d.Day # None /\ IsDigit(d.Day[1]) /\ Len(d.Day[1]) <= 2
    /\ ToInt(d.Day[1]) \in 1..31
RealCalendarDate(d) ==
    ToInt(d.Day[1]) <= DaysInMonth(ToInt(d.Year[1]), CalendarMonth(d.Month[1]))

\* C4 - Date resolution of valid inputs.  For a (Year, Month, Day) input
\* that denotes a real calendar date, format_date returns exactly that
\* date.
C4_ValidDateResolved ==
    (/\ datePc = "done"
     /\ WellFormedYear(date_obj) /\ WellFormedMonth(date_obj)
     /\ WellFormedDay(date_obj) /\ RealCalendarDate(date_obj))
    => date = Some(MkDate(ToInt(date_obj.Year[1]),
                          CalendarMonth(date_obj.Month[1]),
                          ToInt(date_obj.Day[1])))

\* C5 - Invalid dates are missing.  When the supplied Month is a number
\* outside 1..12, or the supplied (Year, Month, Day) is not a real calendar
\* date, format_date returns the missing value.
C5_InvalidDateMissing ==
    (/\ datePc = "done"
     /\ WellFormedYear(date_obj)
     /\ \/ /\ date_obj.Month # None /\ IsDigit(date_obj.Month[1])
           /\ ToInt(date_obj.Month[1]) \notin 1..12
        \/ /\ WellFormedMonth(date_obj) /\ WellFormedDay(date_obj)
           /\ ~RealCalendarDate(date_obj))
    => date = None

\* C6 - Free-text date fallback.  When Year is absent or not a valid year
\* and MedlineDate holds a 4-digit year and a recognised 3-letter month
\* token, format_date returns the 1st of the first-matched month in the
\* first-matched year.
C6_MedlineFallback ==
    (/\ datePc = "done"
     /\ YearField(date_obj) = None
     /\ date_obj.MedlineDate # None
     /\ SearchRun(date_obj.MedlineDate[1], Digits, 4) # None
     /\ SearchRun(date_obj.MedlineDate[1], Letters, 3) # None
     /\ Lower(SearchRun(date_obj.MedlineDate[1], Letters, 3)[1])
            \in DOMAIN months_dict)
    => date = Some(MkDate(
                 ToInt(SearchRun(date_obj.MedlineDate[1], Digits, 4)[1]),
                 ToInt(months_dict[
                     Lower(SearchRun(date_obj.MedlineDate[1], Letters, 3)[1])]),
                 1))

\* C7 - Author resolution is idempotent.  Resolving the {first, last,
\* initials} output of format_author again returns the same first, last
\* and initials.
C7_AuthorIdempotent ==
    authorPc = "done" =>
        /\ name_dict2.first = name_dict.first
        /\ name_dict2.last = name_dict.last
        /\ name_dict2.initials = name_dict.initials

\* C8 - fullNameKey is injective.  Two author rows of the formatted table
\* whose (first, last, initials) differ receive different fullname keys.
C8_FullNameInjective ==
    splitPc = "done" =>
        \A i, j \in DOMAIN t_df.rows :
            AuthorColumns(t_df.rows[i]) # AuthorColumns(t_df.rows[j])
                => FullName(t_df.rows[i]) # FullName(t_df.rows[j])

\* C9 - Authors key uniqueness.  The Authors relation returned by
\* split_tables has no two rows with the same fullname key, a missing key
\* being equal to a missing key.
C9_AuthorsKeyUnique ==
    splitPc = "done" =>
        \A i, j \in DOMAIN author_df :
            i # j => author_df[i].fullname # author_df[j].fullname

\* C10 - Papers key uniqueness.  The Papers relation returned by
\* split_tables has no two rows with the same pmid.
C10_PapersKeyUnique ==
    splitPc = "done" =>
        \A i, j \in DOMAIN papers_df :
            i # j => papers_df[i].pmid # papers_df[j].pmid

\* C11 - Referential integrity of the split.  Every row of the
\* AuthorshipPairs relation returned by split_tables has a pmid that is a
\* key of Papers and a fullname that is not missing and is a key of Authors.
C11_ReferentialIntegrity ==
    splitPc = "done" =>
        \A i \in DOMAIN author_paper_df :
            /\ \E j \in DOMAIN papers_df :
                   papers_df[j].pmid = author_paper_df[i].pmid
            /\ author_paper_df[i].fullname # None
            /\ \E j \in DOMAIN author_df :
                   author_df[j].fullname = author_paper_df[i].fullname

\* The number of articles of the batch with pmid p
ArticlesWithPmid(df, p) == Cardinality({ k \in DOMAIN df : df[k].pmid = p })

\* C12 - Zero-author articles.  For every batch given to format_df, each
\* article without raw authors (and alone under its pmid) produces exactly
\* one output row, with last = "None Listed", numauthors = 0 and
\* firstauthor = false.
C12_ZeroAuthorRow ==
    splitPc # "format" =>
        \A k \in DOMAIN in_df :
            (in_df[k].authors = None /\ ArticlesWithPmid(in_df, in_df[k].pmid) = 1)
                => /\ t_df.ok
                   /\ PmidCount(t_df.rows, in_df[k].pmid) = 1
                   /\ \A i \in DOMAIN t_df.rows :
                          t_df.rows[i].pmid = in_df[k].pmid
                              => /\ t_df.rows[i].last = Some(NoneListed)
                                 /\ t_df.rows[i].numauthors = 0
                                 /\ t_df.rows[i].firstauthor = FALSE

BuiltTerms ==
    WhereTerms(NormTerms(arg_any_nm, arg_last_nm, arg_first_nm,
                         arg_initials_nm))

\* C14 - Query terms are independent.  Whatever last_nm is, a supplied
\* first_nm yields the predicate that searches the first-name column for
\* first_nm, and a supplied initials_nm the predicate that searches the
\* initials column for initials_nm.
C14_TermsIndependent ==
    queryPc = "done" =>
        /\ Truthy(arg_first_nm) =>
               /\ ~NormTerms(arg_any_nm, arg_last_nm, arg_first_nm,
                             arg_initials_nm).raised
               /\ Term({"first"}, NormTerm(arg_first_nm[1]))
                      \in Range(BuiltTerms)
        /\ Truthy(arg_initials_nm) =>
               /\ ~NormTerms(arg_any_nm, arg_last_nm, arg_first_nm,
                             arg_initials_nm).raised
               /\ Term({"initials"}, NormTerm(arg_initials_nm[1]))
                      \in Range(BuiltTerms)

\* The AuthorshipPairs rows that join to a Papers row and to an Authors row
JoinedPairs(d) ==
    { j \in DOMAIN d.pairs[1] :
          /\ \E i \in DOMAIN d.papers[1] :
                 d.papers[1][i].pmid = d.pairs[1][j].pmid
          /\ \E k \in DOMAIN d.authors[1] :
                 /\ d.authors[1][k].fullname # None
                 /\ d.authors[1][k].fullname = d.pairs[1][j].fullname }

AllTablesExist(d) == d.papers # None /\ d.authors # None /\ d.pairs # None

\* C15 - Unfiltered query size.  Called without any match term on a store
\* that has the three tables, query() returns one row per AuthorshipPairs
\* row that joins to a Papers row and an Authors row.
C15_UnfilteredQuerySize ==
    (/\ queryPc = "done" /\ sqlPc = "idle"
     /\ dbPathOk /\ AllTablesExist(db)
     /\ ~Truthy(arg_any_nm) /\ ~Truthy(arg_last_nm)
     /\ ~Truthy(arg_first_nm) /\ ~Truthy(arg_initials_nm))
        => /\ matches # None
           /\ Cardinality(matches[1]) = Cardinality(JoinedPairs(db))

\* C16 - Missing relation at query time.  When the database exists and one
\* of its three tables does not, query() reports an error, returns no
\* result, closes the connection and raises nothing to its caller.
C16_MissingRelationReported ==
    (queryPc = "done" /\ sqlPc = "idle" /\ dbPathOk /\ ~AllTablesExist(db))
        => /\ queryError
           /\ matches = None
           /\ conx = "closed"
           /\ ~queryRaised

\* C17 - Storage failure is fatal for the run.  In sql_full, when the
\* upload step has failed, no query is executed against the store and no
\* match result is returned.
C17_UploadFailureAborts ==
    (sqlPc # "idle" /\ dbPathOk /\ uploadError)
        => (queryPc # "done" /\ matches = None)

\* C18 - Validation failure aborts the scrape.  When the validation block
\* of scraper() has raised, no search, no fetch and no write is performed
\* and no success message is emitted.
C18_ValidationFailureAborts ==
    valError =>
        /\ scrPc = "search"      \* the search step is never taken
        /\ fetches = << >>
        /\ writes = << >>
        /\ ~success

\* C20 - Article id invariant.  Every row the scraper appends to its output
\* batch has a pmid that is an integer between 1 and 99,999,999.
C20_PmidInvariant ==
    \A i \in DOMAIN output_dict :
        /\ output_dict[i].pmid # None
        /\ output_dict[i].pmid[1] >= 1
        /\ output_dict[i].pmid[1] <= 99999999

\* C19 - Max-results default.  Whatever max_returns is, when the other
\* inputs are valid the search is issued, with a positive maximum; and
\* when max_returns is not (and does not convert to) a positive integer the
\* maximum is the fixed ceiling 200000.
PositiveInteger(m) ==
    \/ m.kind = "int" /\ m.val > 0
    \/ m.kind = "str" /\ IsDigit(Strip(m.val)) /\ ToInt(Strip(m.val)) > 0
    \/ m.kind = "float" /\ m.val > 0 /\ m.val % 10 = 0
C19_MaxResultsDefault ==
    (searchPc = "done" /\ inputsValid) =>
        /\ retmax # None
        /\ retmax[1] > 0
        /\ ~PositiveInteger(max_returns) => retmax[1] = MaxReturnsDefault

\* The malformed arguments of a normalizer: not a mapping, a key the
\* function reads holding a value that is not text, or nothing but absent
\* keys and empty strings
NotMapping(x) == x.kind # "dict"
NonTextKey(x, keys) == x.kind = "dict" /\ \E k \in keys : NonText(x.val, k)
AbsentOrEmpty(x) ==
    /\ x.kind = "dict"
    /\ \A k \in DOMAIN x.val :
          \/ x.val[k] = None
          \/ x.val[k][1].kind = "str" /\ x.val[k][1].val = << >>

\* C21 - Field normalizers are total.  For every argument (absent keys,
\* empty strings, values that are not text, arguments that are not
\* mappings) format_date, format_author and issue_vol return without
\* raising, and on a malformed argument the result is the missing marker:
\* None from format_date and format_author (no name component for an author
\* whose keys are all absent or empty), no numeric value from issue_vol.
C21_NormalizersTotal ==
    (normPc = "done" /\ norm_fn # "article_content") =>
        /\ ~norm_out.raised
        /\ norm_fn = "format_date" =>
              ((\/ NotMapping(norm_arg)
                \/ NonTextKey(norm_arg, {"Year", "Month", "Day"})
                \/ AbsentOrEmpty(norm_arg))
               => norm_out.value = None)
        /\ norm_fn = "format_author" =>
              /\ (\/ NotMapping(norm_arg)
                  \/ NonTextKey(norm_arg, {"ForeName", "Initials", "LastName"}))
                 => norm_out.value = None
              /\ AbsentOrEmpty(norm_arg) =>
                    /\ norm_out.value # None
                    /\ norm_out.value[1].first = None
                    /\ norm_out.value[1].last = None
                    /\ norm_out.value[1].initials = None
        /\ norm_fn = "issue_vol" =>
              ((\/ norm_arg.kind \in {"none", "obj"}
                \/ norm_arg.kind = "str" /\ norm_arg.val = << >>)
               => \/ norm_out.value = None
                  \/ norm_out.value[1].vol = None)

\* C21 witness: format_date was called on a mapping whose Month is not text
\* next to a usable Year, and returned None
C21_Witness ==
    /\ normPc = "done" /\ norm_fn = "format_date"
    /\ norm_arg.kind = "dict"
    /\ norm_arg.val.Year = Some(PyStr(S4("2","0","2","1")))
    /\ NonText(norm_arg.val, "Month")
    /\ norm_out = [raised |-> FALSE, value |-> None]

\* A token of the form digits, "-", digits
IssueRangeToken(t) ==
    \E i \in 2..(Len(t) - 1) :
        /\ t[i] = "-"
        /\ IsDigit(SubSeq(t, 1, i - 1))
        /\ IsDigit(SubSeq(t, i + 1, Len(t)))

\* C22 - Issue-range token.  For every token of the form digits, "-",
\* digits (e.g. "3-4") issue_vol returns a missing numeric value and the
\* designator kind "Issue Range".
C22_IssueRangeToken ==
    (/\ normPc = "done" /\ norm_fn = "issue_vol"
     /\ norm_arg.kind = "str" /\ IssueRangeToken(norm_arg.val))
    => /\ norm_out.value # None
       /\ norm_out.value[1].vol = None
       /\ norm_out.value[1].other_type = Some("Issue Range")

\* The journal-level publication date of an article record and its own
\* ArticleDate, each as format_date resolves it
JournalLevelDate(record) ==
    IF /\ record.Journal[1].JournalIssue # None
       /\ record.Journal[1].JournalIssue[1].PubDate # None
    THEN format_date(record.Journal[1].JournalIssue[1].PubDate[1])
    ELSE None
ArticleLevelDate(record) ==
    IF record.ArticleDate # None /\ record.ArticleDate[1] # << >>
    THEN format_date(record.ArticleDate[1][1])
    ELSE None

\* C23 - Date precedence.  In the assembled article, pubdate is the
\* journal-level publication date whenever that date resolves; the
\* article's own ArticleDate is used only when the journal-level date is
\* absent or does not resolve, and pubdate is missing only when both are.
C23_DatePrecedence ==
    (/\ normPc = "done" /\ norm_fn = "article_content"
     /\ norm_out.value # None)
    => norm_out.value[1].pubdate =
          IF JournalLevelDate(norm_arg) # None
          THEN JournalLevelDate(norm_arg)
          ELSE ArticleLevelDate(norm_arg)

\* C23 witness: both dates resolve to different days and the journal's is
\* the one in the assembled article
C23_Witness ==
    /\ normPc = "done" /\ norm_fn = "article_content"
    /\ norm_arg.Journal # None
    /\ JournalLevelDate(norm_arg) = Some(MkDate(2020, 1, 1))
    /\ ArticleLevelDate(norm_arg) = Some(MkDate(2019, 2, 1))
    /\ norm_out.value # None
    /\ norm_out.value[1].pubdate = Some(MkDate(2020, 1, 1))

\* C24 - Graceful date degradation.  With Day absent, a valid Year and
\* Month give the 1st of that month; with Month and Day both absent, a
\* valid Year gives January 1 of that year.
C24_GracefulDegradation ==
    (datePc = "done" /\ WellFormedYear(date_obj) /\ date_obj.Day = None) =>
        /\ WellFormedMonth(date_obj) =>
              date = Some(MkDate(ToInt(date_obj.Year[1]),
                                 CalendarMonth(date_obj.Month[1]), 1))
        /\ date_obj.Month = None =>
              date = Some(MkDate(ToInt(date_obj.Year[1]), 1, 1))

\* C25 - Purely numeric token.  For every token made only of decimal
\* digits issue_vol returns the numeric value int(token), with the
\* designator kind and the auxiliary value both unset.
C25_NumericToken ==
    (/\ normPc = "done" /\ norm_fn = "issue_vol"
     /\ norm_arg.kind = "str" /\ IsDigit(norm_arg.val))
    => norm_out.value = Some([vol |-> Some(ToInt(norm_arg.val)),
                              other_type |-> None, other |-> None])

\* C25 witness: the token "007" was resolved to the number 7
C25_Witness ==
    /\ normPc = "done" /\ norm_fn = "issue_vol"
    /\ norm_arg = PyStr(S3("0","0","7"))
    /\ norm_out.value = Some([vol |-> Some(7), other_type |-> None,
                              other |-> None])

\* The match terms as the caller supplied them, each on its own columns
SuppliedTerms ==
    (IF Truthy(arg_first_nm)
     THEN { Term({"first"}, NormTerm(arg_first_nm[1])) } ELSE {})
    \cup (IF Truthy(arg_initials_nm)
          THEN { Term({"initials"}, NormTerm(arg_initials_nm[1])) } ELSE {})
    \cup (IF Truthy(arg_last_nm)
          THEN { Term({"last"}, NormTerm(arg_last_nm[1])) } ELSE {})
    \cup (IF Truthy(arg_any_nm)
          THEN { Term({"last", "first", "initials"}, NormTerm(arg_any_nm[1])) }
          ELSE {})

\* C26 - Query precision.  Every row query() returns pairs an author with
\* one of that author's own papers (an AuthorshipPairs row links them) and
\* that author's name fields match at least one supplied term; supplying
\* two or more terms never returns authors or papers unrelated to a
\* matching author.
C26_QueryPrecision ==
    (queryPc = "done" /\ sqlPc = "idle" /\ matches # None) =>
        \A m \in matches[1] :
            /\ \E k \in DOMAIN db.authors[1] :
                   /\ db.authors[1][k].fullname # None
                   /\ db.authors[1][k].fullname = m.fullname
                   /\ \E t \in SuppliedTerms :
                          TermMatches(t, db.authors[1][k])
            /\ \A r \in m.rows :
                   \E j \in DOMAIN db.pairs[1] :
                       /\ db.pairs[1][j].pmid = r.pmid
                       /\ db.pairs[1][j].fullname = m.fullname

\* C30 - query() never raises.  For every input, including the failures
\* that occur before the connection is opened (a database path that fails
\* validation, first_nm or initials_nm supplied while last_nm is not),
\* query() reports the error and returns no result; no exception leaves its
\* except/finally handling.
C30_QueryNeverRaises ==
    (queryPc = "done" /\ sqlPc = "idle") =>
        /\ ~queryRaised
        /\ (\/ ~dbPathOk
            \/ /\ Truthy(arg_first_nm) \/ Truthy(arg_initials_nm)
               /\ arg_last_nm = None)
           => (queryError /\ matches = None)

\* The chunked path taken with a chunksize that passed the validation step
ChunkedRun ==
    /\ scrPc \notin {"idle", "validate"} /\ ~valError
    /\ Chunked /\ chunksize.kind = "int"
    /\ target_ids # None /\ target_ids[1] # << >>

\* C27 - Chunk coverage.  Whenever scraper() takes the chunked path with a
\* chunksize that passed validation (negative integers and numeric strings
\* included) and completes, the id lists given to the successive fetch
\* calls, concatenated in order, are the list of ids the search returned,
\* and every chunk but the last has exactly chunksize ids.
C27_ChunkCoverage ==
    (ChunkedRun /\ scrPc = "done" /\ success /\ ~procError) =>
        /\ Concat(fetches) = target_ids[1]
        /\ \A k \in 1..(Len(fetches) - 1) : Len(fetches[k]) = chunksize.val

\* C28 - Chunk-level failure containment.  In chunked mode, when the fetch
\* of chunk k has reported a failure, the run does not end there: the
\* chunks written before k stay in the destination and the chunks after k
\* are still fetched, so that at the end every id has been given to a
\* fetch call.
C28_ChunkFailureContained ==
    (/\ ChunkedRun /\ chunksize.val > 0 /\ scrPc = "done"
     /\ fetches # << >> /\ records = None)
    => /\ Concat(fetches) = target_ids[1]
       /\ writes # << >> => fileExists

\* C29 - Single header row.  After a completed run of scraper() that wrote
\* to a destination (one chunk, several chunks, or an append to an existing
\* compatible file), the destination holds the header exactly once, as its
\* first line, followed only by data rows.
C29_SingleHeaderRow ==
    (scrPc = "done" /\ success /\ ~valError /\ writes # << >>) =>
        /\ fileLines # << >>
        /\ fileLines[1] = "header"
        /\ \A i \in 2..Len(fileLines) : fileLines[i] = "row"
===========================================================================
